---- MODULE Spec2Model ----
(***************************************************************************)
(* Ride simulator of smart-ride/backend/flask-api/algorithms:              *)
(* simulation.py (ActiveRide, RideSimulator), driver_matching.py (driver   *)
(* registry), pathfinding.py (A*, reconstruct_path) and city_graph.py      *)
(* (nearest node).                                                         *)
(*                                                                         *)
(* Units.  All nodes lie on one meridian, so haversine_distance is the     *)
(* absolute difference of the latitudes; a position is an integer number   *)
(* of distance units of 1/12 km.  The clock counts whole seconds           *)
(* (int(time.time())).  Edge times and the time heuristic are in units of  *)
(* 1/6 minute, which makes "2 minutes per km" one time unit per distance   *)
(* unit.  segment_progress is the rational covered / segment_distance; the *)
(* model keeps its numerator (covered) and the segment gives the           *)
(* denominator.  Floating-point rounding is not modelled.                  *)
(***************************************************************************)
EXTENDS Integers, Sequences, FiniteSets, TLC

(***************************************************************************)
(* Bounds of the model.                                                    *)
(***************************************************************************)
MaxTime == 3
MaxRides == 2
MaxTimeWide == 4
MaxRidesWide == 3

(***************************************************************************)
(* Program constants.                                                      *)
(***************************************************************************)
simulation_speed == 10
speed == 30
GraceDelay == 5
UnitsPerKm == 12
TimeUnitsPerMinute == 6
MinutesPerKm == 2
Infinity == 1000000
None == 0 - 1

(***************************************************************************)
(* The city graph (CityGraph.nodes in insertion order, CityNode.lat,       *)
(* CityNode.neighbors).  The rides run on a chain 1 - 2 - 3 - 4 with legs  *)
(* of 2, 1 and 1 distance units, every leg in both directions.             *)
(***************************************************************************)
NodeIds == <<1, 2, 3, 4>>
Nodes == {NodeIds[i] : i \in 1..Len(NodeIds)}
ChainLat == [n \in Nodes |-> CASE n = 1 -> 0 [] n = 2 -> 2 [] n = 3 -> 3 [] n = 4 -> 4]
ChainNeighbors == [n \in Nodes |->
                CASE n = 1 -> {[to |-> 2, distance |-> 2, time |-> 2]}
                  [] n = 2 -> {[to |-> 1, distance |-> 2, time |-> 2],
                               [to |-> 3, distance |-> 1, time |-> 1]}
                  [] n = 3 -> {[to |-> 2, distance |-> 1, time |-> 1],
                               [to |-> 4, distance |-> 1, time |-> 1]}
                  [] n = 4 -> {[to |-> 3, distance |-> 1, time |-> 1]}]
ChainGraph == [lat |-> ChainLat, neighbors |-> ChainNeighbors]

\* the CityGraph object the matcher, the simulator and the searches share
VARIABLE city_graph
NodeLat == city_graph.lat
neighbors == city_graph.neighbors

Abs(x) == IF x < 0 THEN 0 - x ELSE x

\* haversine_distance for two points of the same meridian
haversine_distance(lat1, lat2) == Abs(lat1 - lat2)

\* CityGraph.get_nearest_node: linear scan in insertion order, strict <
\* the scan with <= in place of < at line 136: the last nearest node wins
RECURSIVE NearestScanLast(_, _, _, _)
NearestScanLast(lat, i, nearest_node_id, min_distance) ==
    IF i > Len(NodeIds) THEN nearest_node_id
    ELSE LET distance == haversine_distance(lat, NodeLat[NodeIds[i]])
         IN  IF distance <= min_distance
             THEN NearestScanLast(lat, i + 1, NodeIds[i], distance)
             ELSE NearestScanLast(lat, i + 1, nearest_node_id, min_distance)

RECURSIVE NearestScan(_, _, _, _)
NearestScan(lat, i, nearest_node_id, min_distance) ==
    IF i > Len(NodeIds) THEN nearest_node_id
    ELSE LET distance == haversine_distance(lat, NodeLat[NodeIds[i]])
         IN  IF distance < min_distance
             THEN NearestScan(lat, i + 1, NodeIds[i], distance)
             ELSE NearestScan(lat, i + 1, nearest_node_id, min_distance)

get_nearest_node(lat) == NearestScan(lat, 1, None, Infinity)

(***************************************************************************)
(* pathfinding.py                                                          *)
(***************************************************************************)
calculate_heuristic(n, goal, cost_type) ==
    LET distance == haversine_distance(NodeLat[n], NodeLat[goal])
    IN  IF cost_type = "distance" THEN distance
        ELSE (distance * MinutesPerKm * TimeUnitsPerMinute) \div UnitsPerKm

EdgeCost(e, cost_type) == IF cost_type = "distance" THEN e.distance ELSE e.time

\* heapq.heappop: the least (f_score, node_id) tuple
HeapMin(queue) ==
    CHOOSE t \in queue : \A u \in queue :
        t[1] < u[1] \/ (t[1] = u[1] /\ t[2] <= u[2])

RECURSIVE AStarLoop(_, _, _, _, _, _)
AStarLoop(goal, cost_type, g_scores, predecessors, priority_queue, visited) ==
    IF priority_queue = {} THEN [scores |-> g_scores, predecessors |-> predecessors]
    ELSE
      LET top == HeapMin(priority_queue)
          current_id == top[2]
          rest == priority_queue \ {top}
      IN  IF current_id \in visited
          THEN AStarLoop(goal, cost_type, g_scores, predecessors, rest, visited)
          ELSE IF current_id = goal
          THEN [scores |-> g_scores, predecessors |-> predecessors]
          ELSE
            LET better == {e \in neighbors[current_id] :
                             g_scores[current_id] + EdgeCost(e, cost_type) < g_scores[e.to]}
                edgeTo(n) == CHOOSE e \in better : e.to = n
                improved == {e.to : e \in better}
                g2 == [n \in Nodes |->
                         IF n \in improved
                         THEN g_scores[current_id] + EdgeCost(edgeTo(n), cost_type)
                         ELSE g_scores[n]]
                p2 == [n \in Nodes |->
                         IF n \in improved THEN current_id ELSE predecessors[n]]
                pushed == {<<g2[n] + calculate_heuristic(n, goal, cost_type), n>> :
                             n \in improved}
            IN  AStarLoop(goal, cost_type, g2, p2, rest \cup pushed,
                          visited \cup {current_id})

\* a_star_algorithm searching by the cost that was not asked for
a_star_algorithm_other_cost(start_id, goal_id, cost_type) ==
    AStarLoop(goal_id, IF cost_type = "time" THEN "distance" ELSE "time",
              [n \in Nodes |-> IF n = start_id THEN 0 ELSE Infinity],
              [n \in Nodes |-> None],
              {<<calculate_heuristic(start_id, goal_id, cost_type), start_id>>},
              {})

a_star_algorithm(start_id, goal_id, cost_type) ==
    AStarLoop(goal_id, cost_type,
              [n \in Nodes |-> IF n = start_id THEN 0 ELSE Infinity],
              [n \in Nodes |-> None],
              {<<calculate_heuristic(start_id, goal_id, cost_type), start_id>>},
              {})

RECURSIVE Backtrack(_, _, _, _)
Backtrack(predecessors, start_id, current_id, path) ==
    IF current_id = start_id THEN <<start_id>> \o path
    ELSE Backtrack(predecessors, start_id, predecessors[current_id],
                   <<current_id>> \o path)

\* reconstruct_path without the path.reverse() of line 238
reconstruct_path_not_reversed(predecessors, start_id, goal_id) ==
    IF predecessors[goal_id] = None /\ start_id # goal_id THEN <<>>
    ELSE LET path == Backtrack(predecessors, start_id, goal_id, <<>>)
         IN  [i \in 1..Len(path) |-> path[Len(path) + 1 - i]]

reconstruct_path(predecessors, start_id, goal_id) ==
    IF predecessors[goal_id] = None /\ start_id # goal_id THEN <<>>
    ELSE Backtrack(predecessors, start_id, goal_id, <<>>)

\* dijkstra_algorithm, lines 61-91: the loop of A* with the cost so far as key
RECURSIVE DijkstraLoop(_, _, _, _, _, _)
DijkstraLoop(goal, cost_type, distances, predecessors, priority_queue, visited) ==
    IF priority_queue = {} THEN [scores |-> distances, predecessors |-> predecessors]
    ELSE
      LET top == HeapMin(priority_queue)
          current_id == top[2]
          rest == priority_queue \ {top}
      IN  IF current_id \in visited
          THEN DijkstraLoop(goal, cost_type, distances, predecessors, rest, visited)
          ELSE IF current_id = goal
          THEN [scores |-> distances, predecessors |-> predecessors]
          ELSE IF current_id \notin Nodes
          THEN DijkstraLoop(goal, cost_type, distances, predecessors, rest,
                            visited \cup {current_id})
          ELSE
            LET better == {e \in neighbors[current_id] :
                             distances[current_id] + EdgeCost(e, cost_type) < distances[e.to]}
                edgeTo(n) == CHOOSE e \in better : e.to = n
                improved == {e.to : e \in better}
                d2 == [n \in Nodes |->
                         IF n \in improved
                         THEN distances[current_id] + EdgeCost(edgeTo(n), cost_type)
                         ELSE distances[n]]
                p2 == [n \in Nodes |->
                         IF n \in improved THEN current_id ELSE predecessors[n]]
                pushed == {<<d2[n], n>> : n \in improved}
            IN  DijkstraLoop(goal, cost_type, d2, p2, rest \cup pushed,
                             visited \cup {current_id})

\* the loop of dijkstra_algorithm leaving as soon as the goal has been given
\* a distance, not when the goal is popped
RECURSIVE DijkstraLoopUntilSeen(_, _, _, _, _, _)
DijkstraLoopUntilSeen(goal, cost_type, distances, predecessors, priority_queue, visited) ==
    IF priority_queue = {} \/ distances[goal] < Infinity
    THEN [scores |-> distances, predecessors |-> predecessors]
    ELSE
      LET top == HeapMin(priority_queue)
          current_id == top[2]
          rest == priority_queue \ {top}
      IN  IF current_id \in visited
          THEN DijkstraLoopUntilSeen(goal, cost_type, distances, predecessors, rest, visited)
          ELSE
            LET better == {e \in neighbors[current_id] :
                             distances[current_id] + EdgeCost(e, cost_type) < distances[e.to]}
                edgeTo(n) == CHOOSE e \in better : e.to = n
                improved == {e.to : e \in better}
                d2 == [n \in Nodes |->
                         IF n \in improved
                         THEN distances[current_id] + EdgeCost(edgeTo(n), cost_type)
                         ELSE distances[n]]
                p2 == [n \in Nodes |->
                         IF n \in improved THEN current_id ELSE predecessors[n]]
                pushed == {<<d2[n], n>> : n \in improved}
            IN  DijkstraLoopUntilSeen(goal, cost_type, d2, p2, rest \cup pushed,
                                      visited \cup {current_id})

dijkstra_algorithm_until_seen(start_id, goal_id, cost_type) ==
    DijkstraLoopUntilSeen(goal_id, cost_type,
                          [n \in Nodes |-> IF n = start_id THEN 0 ELSE Infinity],
                          [n \in Nodes |-> None],
                          {<<0, start_id>>},
                          {})

dijkstra_algorithm(start_id, goal_id, cost_type) ==
    DijkstraLoop(goal_id, cost_type,
                 [n \in Nodes |-> IF n = start_id THEN 0 ELSE Infinity],
                 [n \in Nodes |-> None],
                 {<<0, start_id>>},
                 {})

\* CityNode.get_neighbor_cost: (inf, inf) when next_id is no neighbour
get_neighbor_cost(n, next_id) ==
    IF \E e \in neighbors[n] : e.to = next_id
    THEN LET e == CHOOSE f \in neighbors[n] : f.to = next_id
         IN  [distance |-> e.distance, time |-> e.time]
    ELSE [distance |-> Infinity, time |-> Infinity]

\* inf + x is inf
Plus(x, y) == IF x >= Infinity \/ y >= Infinity THEN Infinity ELSE x + y

\* int(total_distance * 100) / 100 in place of round(total_distance, 2)
TruncateKm(k) ==
    IF k >= Infinity THEN Infinity ELSE (100 * k) \div UnitsPerKm

\* round(total_distance, 2) of a distance of k units of 1/12 km, in hundredths
\* of a km: the integer nearest to 100 k / 12 (which is never half an integer)
RoundKm(k) ==
    IF k >= Infinity THEN Infinity ELSE (200 * k + UnitsPerKm) \div (2 * UnitsPerKm)

\* round(total_time, 2) of t units of 1/6 minute, in hundredths of a minute
RoundMinutes(t) ==
    IF t >= Infinity THEN Infinity
    ELSE (200 * t + TimeUnitsPerMinute) \div (2 * TimeUnitsPerMinute)

\* get_path_details, the for loop of lines 273-303 from position i on
RECURSIVE PathDetailsLoop(_, _, _, _, _, _)
PathDetailsLoop(path, i, nodes, total_distance, total_time, segments) ==
    IF i > Len(path) - 1
    THEN [nodes |-> nodes, total_distance |-> total_distance,
          total_time |-> total_time, segments |-> segments]
    ELSE IF path[i] \notin Nodes \/ path[i + 1] \notin Nodes
    THEN PathDetailsLoop(path, i + 1, nodes, total_distance, total_time, segments)
    ELSE LET cost == get_neighbor_cost(path[i], path[i + 1])
         IN  PathDetailsLoop(path, i + 1, Append(nodes, path[i]),
                             Plus(total_distance, cost.distance),
                             Plus(total_time, cost.time),
                             Append(segments, [from |-> path[i], to |-> path[i + 1],
                                               distance |-> cost.distance,
                                               time |-> cost.time]))

\* the dictionary get_path_details returns: nodes by id, total_distance in
\* hundredths of a km, total_time in hundredths of a minute, the segments with
\* the weights of their edges
get_path_details(path) ==
    IF Len(path) < 2
    THEN [nodes |-> <<>>, total_distance |-> 0, total_time |-> 0, segments |-> <<>>]
    ELSE LET done == PathDetailsLoop(path, 1, <<>>, 0, 0, <<>>)
         IN  [nodes |-> IF path[Len(path)] \in Nodes
                        THEN Append(done.nodes, path[Len(path)])
                        ELSE done.nodes,
              total_distance |-> RoundKm(done.total_distance),
              total_time |-> RoundMinutes(done.total_time),
              segments |-> done.segments]

Algorithms == {"dijkstra", "a_star"}
CostTypes == {"time", "distance"}

\* find_optimal_path, lines 345-352: the local variable path
SearchPath(start_id, goal_id, algorithm, cost_type) ==
    reconstruct_path(
        IF algorithm = "dijkstra"
        THEN dijkstra_algorithm(start_id, goal_id, cost_type).predecessors
        ELSE a_star_algorithm(start_id, goal_id, cost_type).predecessors,
        start_id, goal_id)

\* what find_optimal_path does: the exception that leaves it ("none" when it
\* returns), its local path and the dictionary it returns
\* the outcome of find_optimal_path when an exception ends it; searched
\* tells whether dijkstra_algorithm or a_star_algorithm was entered
Raises(raised, searched, algorithm, cost_type) ==
    [raised |-> raised, searched |-> searched, path |-> <<>>,
     details |-> get_path_details(<<>>),
     algorithm |-> algorithm, cost_type |-> cost_type]

\* lines 346-359: the chosen search and what is made of its result.  Both
\* searches test cost_type first (lines 47 and 113); A* looks up the goal and
\* the start node (lines 120-132); after Dijkstra reconstruct_path reads
\* predecessors[goal_id] (line 226), which has the nodes of the graph as keys
RunSearch(start_id, goal_id, algorithm, cost_type) ==
    IF cost_type \notin CostTypes
    THEN Raises("ValueError", TRUE, algorithm, cost_type)
    ELSE IF algorithm # "dijkstra" /\ (goal_id \notin Nodes \/ start_id \notin Nodes)
    THEN Raises("ValueError", TRUE, algorithm, cost_type)
    ELSE IF algorithm = "dijkstra" /\ goal_id \notin Nodes
    THEN Raises("KeyError", TRUE, algorithm, cost_type)
    ELSE LET path == SearchPath(start_id, goal_id, algorithm, cost_type)
         IN  [raised |-> "none", searched |-> TRUE, path |-> path,
              details |-> get_path_details(path),
              algorithm |-> algorithm, cost_type |-> cost_type]

(***************************************************************************)
(* The two searches statement by statement: current_node.neighbors.items() *)
(* in the order in which add_edge inserted the neighbours, and the heap as *)
(* the list of the tuples pushed and not yet popped.                       *)
(***************************************************************************)
\* the edge from node n to its neighbour next_id
EdgeTo(n, next_id) == CHOOSE e \in neighbors[n] : e.to = next_id

\* tuple comparison of Python: (a, x) <= (b, y)
TupleLeq(t, u) == t[1] < u[1] \/ (t[1] = u[1] /\ t[2] <= u[2])

\* a heap that pops the entry of least cost pushed first: the node id is no key
heappop_first_pushed(queue) ==
    CHOOSE i \in 1..Len(queue) :
        /\ \A j \in 1..Len(queue) : queue[i][1] <= queue[j][1]
        /\ \A j \in 1..(i - 1) : queue[j][1] # queue[i][1]

\* heapq.heappop: the position of the least tuple (equal tuples are the same
\* entry twice)
heappop(queue) ==
    CHOOSE i \in 1..Len(queue) :
        /\ \A j \in 1..Len(queue) : TupleLeq(queue[i], queue[j])
        /\ \A j \in 1..(i - 1) : queue[j] # queue[i]

Without(queue, i) == SubSeq(queue, 1, i - 1) \o SubSeq(queue, i + 1, Len(queue))

\* the key under which a node is pushed: the cost so far (line 91), or the
\* cost so far plus the heuristic (lines 177-182)
Priority(algorithm, n, goal, cost_type, score) ==
    IF algorithm = "dijkstra" THEN score
    ELSE score + calculate_heuristic(n, goal, cost_type)

\* lines 81-91 and 164-182: the for loop over the neighbours left in items
RECURSIVE ExploreNeighbors(_, _, _, _, _, _)
ExploreNeighbors(items, current_id, algorithm, goal, cost_type, st) ==
    IF items = <<>> THEN st
    ELSE
      LET neighbor_id == Head(items)
          new_distance == st.scores[current_id]
                            + EdgeCost(EdgeTo(current_id, neighbor_id), cost_type)
      IN  IF new_distance < st.scores[neighbor_id]
          THEN ExploreNeighbors(Tail(items), current_id, algorithm, goal, cost_type,
                 [scores |-> [st.scores EXCEPT ![neighbor_id] = new_distance],
                  predecessors |-> [st.predecessors EXCEPT ![neighbor_id] = current_id],
                  priority_queue |-> Append(st.priority_queue,
                                            <<Priority(algorithm, neighbor_id, goal,
                                                       cost_type, new_distance),
                                              neighbor_id>>)])
          ELSE ExploreNeighbors(Tail(items), current_id, algorithm, goal, cost_type, st)

\* lines 61-91 and 143-182: the while loop; order[n] lists the neighbours of
\* node n as neighbors.items() yields them
RECURSIVE SearchLoopInOrder(_, _, _, _, _, _)
SearchLoopInOrder(order, algorithm, goal, cost_type, st, visited) ==
    IF st.priority_queue = <<>> THEN st
    ELSE
      LET i == heappop(st.priority_queue)
          current_id == st.priority_queue[i][2]
          popped == [st EXCEPT !.priority_queue = Without(@, i)]
      IN  IF current_id \in visited
          THEN SearchLoopInOrder(order, algorithm, goal, cost_type, popped, visited)
          ELSE IF current_id = goal THEN popped
          ELSE IF current_id \notin Nodes
          THEN SearchLoopInOrder(order, algorithm, goal, cost_type, popped,
                                 visited \cup {current_id})
          ELSE SearchLoopInOrder(order, algorithm, goal, cost_type,
                                 ExploreNeighbors(order[current_id], current_id,
                                                  algorithm, goal, cost_type, popped),
                                 visited \cup {current_id})

\* dijkstra_algorithm or a_star_algorithm on a graph whose neighbours were
\* inserted in the given order
search_in_order(order, start_id, goal_id, algorithm, cost_type) ==
    SearchLoopInOrder(order, algorithm, goal_id, cost_type,
        [scores |-> [n \in Nodes |-> IF n = start_id THEN 0 ELSE Infinity],
         predecessors |-> [n \in Nodes |-> None],
         priority_queue |-> <<<<Priority(algorithm, start_id, goal_id, cost_type, 0),
                                start_id>>>>],
        {})

\* find_optimal_path with valid arguments on that graph: the node sequence
find_optimal_path_in_order(order, start_id, goal_id, algorithm, cost_type) ==
    get_path_details(
        reconstruct_path(search_in_order(order, start_id, goal_id, algorithm,
                                         cost_type).predecessors,
                         start_id, goal_id)).nodes

\* find_optimal_path without the tests of lines 339-343
find_optimal_path_unvalidated(start_id, goal_id, algorithm, cost_type) ==
    RunSearch(start_id, goal_id, algorithm, cost_type)

find_optimal_path(start_id, goal_id, algorithm, cost_type) ==
    IF algorithm \notin Algorithms \/ cost_type \notin CostTypes
    THEN Raises("ValueError", FALSE, algorithm, cost_type)
    ELSE RunSearch(start_id, goal_id, algorithm, cost_type)

(***************************************************************************)
(* Inputs.                                                                 *)
(***************************************************************************)
DriverStatus == {"available", "busy", "offline", "on_trip", "on_break"}
RideStatus == {"requested", "accepted", "driver_en_route", "arrived",
               "in_progress", "completed", "cancelled"}

\* the drivers that register, in this order: d2 offline, then d1 available,
\* both at node 1
DriverIds == {"d1", "d2"}
DriverInputs == <<[id |-> "d2", location |-> 0, status |-> "offline"],
                  [id |-> "d1", location |-> 0, status |-> "available"]>>
\* requests, with the node ids prepare_ride_request has cached
Requests == {[pickup_node_id |-> 2, dropoff_node_id |-> 4]}
UnknownRide == None
DriverSpots == {0, 3}

(***************************************************************************)
(* State.                                                                  *)
(*   now              time.time(), whole seconds                           *)
(*   drivers          DriverMatcher.drivers: id -> Driver                  *)
(*   driver_order     the keys of DriverMatcher.drivers in insertion order *)
(*   rides            the ActiveRide objects, in order of construction     *)
(*   active_rides     RideSimulator.active_rides: ride id -> object        *)
(*   is_running, last_update_time   fields of RideSimulator                *)
(*   tick_pc, current_time, delta_time, todo   position and locals of the  *)
(*                    simulation_loop thread; todo is what is left of      *)
(*                    list(self.active_rides.items())                      *)
(*   observers        RideSimulator.observers: a callback is "returns" or  *)
(*                    "raises", what a call of it does                     *)
(*   notified         how many callbacks the last notify_observers called  *)
(*   simulation_thread   whether RideSimulator.simulation_thread holds a   *)
(*                    thread                                               *)
(*   stop_pc, join_deadline   position of the caller of stop_simulation    *)
(*                    ("idle" or "join") and the end of its join timeout   *)
(*   returned         the last call of a function of pathfinding.py or of  *)
(*                    the matcher, with its arguments and its result       *)
(***************************************************************************)
VARIABLES now, drivers, rides, active_rides, is_running, last_update_time,
          tick_pc, current_time, delta_time, todo, observers, notified,
          simulation_thread, stop_pc, join_deadline, returned, driver_order

vars == <<now, drivers, rides, active_rides, is_running, last_update_time,
          tick_pc, current_time, delta_time, todo, observers, notified,
          simulation_thread, stop_pc, join_deadline, returned, driver_order,
          city_graph>>
tickVars == <<is_running, last_update_time, tick_pc, current_time, delta_time, todo,
              notified>>
loopVars == <<observers, simulation_thread, stop_pc, join_deadline>>
otherVars == <<loopVars, returned, driver_order, city_graph>>

(***************************************************************************)
(* ActiveRide                                                              *)
(***************************************************************************)
ActiveRide(ride_id, request, driver, driver_to_pickup_path, pickup_to_dropoff_path, t) ==
    [ride_id |-> ride_id,
     pickup_node_id |-> request.pickup_node_id,
     dropoff_node_id |-> request.dropoff_node_id,
     driver |-> driver,
     driver_to_pickup_path |-> driver_to_pickup_path,
     pickup_to_dropoff_path |-> pickup_to_dropoff_path,
     status |-> "accepted",
     start_time |-> t,
     pickup_time |-> None,
     completion_time |-> None,
     current_path |-> "driver_to_pickup",
     current_path_segment |-> 0,
     covered |-> 0]

\* the list self.current_path refers to
PathOf(ride) ==
    IF ride.current_path = "driver_to_pickup" THEN ride.driver_to_pickup_path
    ELSE ride.pickup_to_dropoff_path

\* update_status with the switch of lines 94-96 made on IN_PROGRESS and not
\* on ARRIVED
update_status_switch_on_start(ride, new_status, t) ==
    IF new_status = "arrived"
    THEN [ride EXCEPT !.status = new_status, !.pickup_time = t]
    ELSE IF new_status = "in_progress"
    THEN [ride EXCEPT !.status = new_status,
                      !.current_path = "pickup_to_dropoff",
                      !.current_path_segment = 0, !.covered = 0]
    ELSE IF new_status = "completed"
    THEN [ride EXCEPT !.status = new_status, !.completion_time = t]
    ELSE [ride EXCEPT !.status = new_status]

update_status(ride, new_status, t) ==
    IF new_status = "arrived"
    THEN [ride EXCEPT !.status = new_status, !.pickup_time = t,
                      !.current_path = "pickup_to_dropoff",
                      !.current_path_segment = 0, !.covered = 0]
    ELSE IF new_status = "completed"
    THEN [ride EXCEPT !.status = new_status, !.completion_time = t]
    ELSE [ride EXCEPT !.status = new_status]

\* current_path[-2] raises IndexError on a path of fewer than two nodes
SegmentDefined(ride) == Len(PathOf(ride)) >= 2

get_current_segment(ride) ==
    LET path == PathOf(ride)
    IN  IF ride.current_path_segment >= Len(path) - 1
        THEN <<path[Len(path) - 1], path[Len(path)]>>
        ELSE <<path[ride.current_path_segment + 1], path[ride.current_path_segment + 2]>>

segment_distance(ride) ==
    LET seg == get_current_segment(ride)
    IN  haversine_distance(NodeLat[seg[1]], NodeLat[seg[2]])

\* speed / 3600 * delta_time, in distance units
distance_covered(dt) == (speed * dt * UnitsPerKm) \div 3600

\* update_progress without the reset of line 154
update_progress_without_reset(ride, dt, t) ==
    IF ride.status \in {"completed", "cancelled"}
    THEN [ride |-> ride, segment_completed |-> FALSE]
    ELSE
      LET progress == ride.covered + distance_covered(dt)
      IN  IF progress >= segment_distance(ride)
          THEN LET moved == [ride EXCEPT !.current_path_segment = @ + 1, !.covered = progress]
               IN  IF moved.current_path_segment >= Len(PathOf(moved)) - 1
                   THEN IF moved.status = "driver_en_route"
                        THEN [ride |-> update_status(moved, "arrived", t),
                              segment_completed |-> TRUE]
                        ELSE IF moved.status = "in_progress"
                        THEN [ride |-> update_status(moved, "completed", t),
                              segment_completed |-> TRUE]
                        ELSE [ride |-> moved, segment_completed |-> TRUE]
                   ELSE [ride |-> moved, segment_completed |-> TRUE]
          ELSE [ride |-> [ride EXCEPT !.covered = progress],
                segment_completed |-> FALSE]

\* the ride after update_progress and the value it returns
update_progress(ride, dt, t) ==
    IF ride.status \in {"completed", "cancelled"}
    THEN [ride |-> ride, segment_completed |-> FALSE]
    ELSE
      LET progress == ride.covered + distance_covered(dt)
      IN  IF progress >= segment_distance(ride)
          THEN LET moved == [ride EXCEPT !.current_path_segment = @ + 1, !.covered = 0]
               IN  IF moved.current_path_segment >= Len(PathOf(moved)) - 1
                   THEN IF moved.status = "driver_en_route"
                        THEN [ride |-> update_status(moved, "arrived", t),
                              segment_completed |-> TRUE]
                        ELSE IF moved.status = "in_progress"
                        THEN [ride |-> update_status(moved, "completed", t),
                              segment_completed |-> TRUE]
                        ELSE [ride |-> moved, segment_completed |-> TRUE]
                   ELSE [ride |-> moved, segment_completed |-> TRUE]
          ELSE [ride |-> [ride EXCEPT !.covered = progress],
                segment_completed |-> FALSE]

\* from.lat + (to.lat - from.lat) * segment_progress
get_current_location(ride) ==
    LET seg == get_current_segment(ride)
        from == NodeLat[seg[1]]
        to == NodeLat[seg[2]]
    IN  IF to >= from THEN from + ride.covered ELSE from - ride.covered

(***************************************************************************)
(* DriverMatcher                                                           *)
(***************************************************************************)
DriverOfType(location, status, vehicle_type) ==
    [current_location |-> location,
     nearest_node_id |-> get_nearest_node(location),
     status |-> status,
     vehicle_type |-> vehicle_type]

\* a driver constructed without vehicle_type
Driver(location, status) == DriverOfType(location, status, "sedan")

update_driver_location(ds, driver_id, location) ==
    IF driver_id \notin DOMAIN ds THEN ds
    ELSE [ds EXCEPT ![driver_id].current_location = location,
                    ![driver_id].nearest_node_id = get_nearest_node(location)]

\* update_driver_status without the except of line 200: the status is stored
\* as it comes
update_driver_status_unchecked(ds, driver_id, status) ==
    IF driver_id \notin DOMAIN ds THEN ds
    ELSE [ds EXCEPT ![driver_id].status = status]

update_driver_status(ds, driver_id, status) ==
    IF driver_id \notin DOMAIN ds \/ status \notin DriverStatus THEN ds
    ELSE [ds EXCEPT ![driver_id].status = status]

\* Driver.__init__ with nearest_node_id given (None when it is left out)
DriverWithNode(location, nearest_node_id, status, vehicle_type) ==
    [current_location |-> location,
     nearest_node_id |-> nearest_node_id,
     status |-> status,
     vehicle_type |-> vehicle_type]

\* DriverMatcher.add_driver: the registry after the driver is added; the
\* nearest node is looked up only when the driver brings none (line 152)
matcher_add_driver(ds, driver_id, driver) ==
    [d \in DOMAIN ds \cup {driver_id} |->
        IF d # driver_id THEN ds[d]
        ELSE IF driver.nearest_node_id = None
             THEN [driver EXCEPT !.nearest_node_id =
                                     get_nearest_node(driver.current_location)]
             ELSE driver]

\* what update_driver_location returns
update_driver_location_result(ds, driver_id) == driver_id \in DOMAIN ds

\* what update_driver_status returns
update_driver_status_result(ds, driver_id, status) ==
    driver_id \in DOMAIN ds /\ status \in DriverStatus

\* get_available_drivers: the ids of the AVAILABLE drivers in the order of
\* self.drivers.values(), of one vehicle type when one is given ("None" is
\* the default None)
get_available_drivers(ds, order, vehicle_type) ==
    LET Wanted(d) == /\ ds[d].status = "available"
                     /\ (vehicle_type = "None" \/ ds[d].vehicle_type = vehicle_type)
    IN  SelectSeq(order, Wanted)

\* x put behind the entries of the sorted list whose key is not larger
SortedInsert(sorted, x, key) ==
    LET n == Cardinality({i \in 1..Len(sorted) : sorted[i][key] <= x[key]})
    IN  SubSeq(sorted, 1, n) \o <<x>> \o SubSeq(sorted, n + 1, Len(sorted))

\* list.sort(key=...): ascending, entries of equal key stay in their order
RECURSIVE SortByKey(_, _)
SortByKey(entries, key) ==
    IF entries = <<>> THEN <<>>
    ELSE SortedInsert(SortByKey(SubSeq(entries, 1, Len(entries) - 1), key),
                      entries[Len(entries)], key)

\* lines 265-273: the available drivers no farther than max_distance, with
\* their straight-line distance, in registry order
DriversWithDistance(ds, order, location, max_distance, vehicle_type) ==
    LET available == get_available_drivers(ds, order, vehicle_type)
        all == [i \in 1..Len(available) |->
                   [id |-> available[i],
                    distance |-> haversine_distance(location,
                                                    ds[available[i]].current_location)]]
        Near(e) == e.distance <= max_distance
    IN  SelectSeq(all, Near)

\* find_nearest_drivers without the sort of line 275
find_nearest_drivers_unsorted(ds, order, location, max_count, max_distance, vehicle_type) ==
    LET found == DriversWithDistance(ds, order, location, max_distance, vehicle_type)
    IN  SubSeq(found, 1, IF max_count < Len(found) THEN max_count ELSE Len(found))

\* the list of (driver, distance) find_nearest_drivers returns, max_count >= 0
find_nearest_drivers(ds, order, location, max_count, max_distance, vehicle_type) ==
    LET sorted == SortByKey(DriversWithDistance(ds, order, location, max_distance,
                                                vehicle_type), "distance")
    IN  SubSeq(sorted, 1, IF max_count < Len(sorted) THEN max_count ELSE Len(sorted))

\* calculate_driver_eta: the totals of the dictionary it returns, total_distance
\* in 1/1200 km and total_time in 1/600 minute (the route totals come in
\* hundredths, the straight line to the nearest node in model units, at 2
\* minutes per km)
calculate_driver_eta(driver, pickup_node_id) ==
    LET out == find_optimal_path(driver.nearest_node_id, pickup_node_id, "a_star", "time")
        direct_distance ==
            IF driver.nearest_node_id \in Nodes
            THEN haversine_distance(driver.current_location, NodeLat[driver.nearest_node_id])
            ELSE 0
    IN  [total_distance |-> (1200 \div 100) * out.details.total_distance
                              + (1200 \div UnitsPerKm) * direct_distance,
         total_time |-> (600 \div 100) * out.details.total_time
                          + ((600 * MinutesPerKm) \div UnitsPerKm) * direct_distance]

\* math.ceil of a time in 1/600 minute, in minutes
CeilMinutes(t) == (t + 599) \div 600

\* prepare_ride_request: the pickup node of the request
PickupNode(request) ==
    IF request.pickup_node_id = None THEN get_nearest_node(request.pickup_location)
    ELSE request.pickup_node_id

\* lines 337-361: one entry per driver of find_nearest_drivers, in its order
MatchedDrivers(ds, order, request, max_candidates, max_distance) ==
    LET nearest_drivers == find_nearest_drivers(ds, order, request.pickup_location,
                               max_candidates, max_distance, request.vehicle_type)
    IN  [i \in 1..Len(nearest_drivers) |->
            LET eta_details == calculate_driver_eta(ds[nearest_drivers[i].id],
                                                    PickupNode(request))
            IN  [id |-> nearest_drivers[i].id,
                 direct_distance |-> RoundKm(nearest_drivers[i].distance),
                 route_distance |-> eta_details.total_distance,
                 eta_minutes |-> CeilMinutes(eta_details.total_time)]]

\* match_driver_to_request without the sort of line 364
match_driver_to_request_unsorted(ds, order, request, max_candidates, max_distance) ==
    MatchedDrivers(ds, order, request, max_candidates, max_distance)

\* the list match_driver_to_request returns (estimated_fare, which depends on
\* the hour of the day, is left out of the entries)
match_driver_to_request(ds, order, request, max_candidates, max_distance) ==
    SortByKey(MatchedDrivers(ds, order, request, max_candidates, max_distance),
              "eta_minutes")

\* prepare_ride_request: the node ids the request lacks are looked up
prepare_ride_request(request) ==
    [request EXCEPT
        !.pickup_node_id = PickupNode(request),
        !.dropoff_node_id =
            IF request.dropoff_node_id = None /\ request.dropoff_location # None
            THEN get_nearest_node(request.dropoff_location)
            ELSE request.dropoff_node_id]

\* the find_optimal_path invocations of one call of estimate_fare (line 395)
estimate_fare_searches(request) ==
    IF request.pickup_node_id # None /\ request.dropoff_node_id # None THEN 1 ELSE 0

\* the find_optimal_path invocations of one call of match_driver_to_request:
\* each turn of the loop of line 340 makes the one of calculate_driver_eta
\* (line 292) and those of estimate_fare
find_optimal_path_calls(ds, order, request, max_candidates, max_distance) ==
    LET prepared == prepare_ride_request(request)
        nearest_drivers == find_nearest_drivers(ds, order, prepared.pickup_location,
                               max_candidates, max_distance, prepared.vehicle_type)
    IN  Len(nearest_drivers) * (1 + estimate_fare_searches(prepared))

\* estimate_fare.  Money is counted in 1/200 rupee until the final
\* round(estimated_fare, 2), whose result is in hundredths of a rupee.
base_fare == 50
PlaceholderKm == 5
\* the surge factor 1.5 of line 410, in halves
SurgeHalves == 3

\* str.lower() on the vehicle types of the inputs
Lower(vehicle_type) ==
    CASE vehicle_type = "SUV" -> "suv"
      [] vehicle_type = "Sedan" -> "sedan"
      [] OTHER -> vehicle_type

\* lines 383-389: rupees per km
per_km_rate(vehicle_type) ==
    CASE Lower(vehicle_type) = "mini" -> 12
      [] Lower(vehicle_type) = "sedan" -> 15
      [] Lower(vehicle_type) = "premium" -> 20
      [] Lower(vehicle_type) = "suv" -> 18
      [] Lower(vehicle_type) = "xl" -> 25
      [] OTHER -> 15

\* lines 392-402: the ride distance in hundredths of a km
ride_distance(request) ==
    IF request.pickup_node_id # None /\ request.dropoff_node_id # None
    THEN find_optimal_path(request.pickup_node_id, request.dropoff_node_id,
                           "a_star", "distance").details.total_distance
    ELSE 100 * PlaceholderKm

\* the hours of the surge without the evening window
PeakHourMorningOnly(current_hour) == current_hour >= 8 /\ current_hour <= 10

\* lines 408-409: the hours of the surge
PeakHour(current_hour) ==
    \/ current_hour >= 8 /\ current_hour <= 10
    \/ current_hour >= 17 /\ current_hour <= 19

\* lines 405-410: the fare before it is rounded, in 1/200 rupee
UnroundedFare(request, current_hour) ==
    (100 * base_fare + ride_distance(request) * per_km_rate(request.vehicle_type))
        * (IF PeakHour(current_hour) THEN SurgeHalves ELSE 2)

\* round(x, 2) for x in 1/200: a value half-way between two hundredths is not
\* a binary float, and the float nearest to it is rounded to either side
RoundFare(x) ==
    IF x % 2 = 0 THEN {x \div 2} ELSE {(x - 1) \div 2, (x + 1) \div 2}

\* the values estimate_fare may return (in hundredths of a rupee) at the local
\* hour current_hour; eta_details is the argument the body never reads
estimate_fare(request, eta_details, current_hour) ==
    RoundFare(UnroundedFare(request, current_hour))

(***************************************************************************)
(* RideSimulator: operations called from other threads.  For each          *)
(* operation X, X_result is what the call returns in the current state:    *)
(* "ok" for a result dictionary, the text of the 'error' entry, or the     *)
(* name of the exception that leaves the call.                             *)
(***************************************************************************)
NoDrivers == [d \in {} |-> None]
NoRides == [r \in {} |-> None]

\* the keys of the dictionary find_optimal_path returns
PathDetailsKeys == {"nodes", "total_distance", "total_time", "segments",
                    "algorithm", "cost_type"}

\* The node lists lines 324-329 hand to ActiveRide when the 'predecessors'
\* entry they read is the predecessor map of the time-optimised A* search that
\* find_optimal_path ran.
ConfirmPaths(request, driver) ==
    [driver_to_pickup |->
        reconstruct_path(
            a_star_algorithm(driver.nearest_node_id, request.pickup_node_id, "time").predecessors,
            driver.nearest_node_id, request.pickup_node_id),
     pickup_to_dropoff |->
        reconstruct_path(
            a_star_algorithm(request.pickup_node_id, request.dropoff_node_id, "time").predecessors,
            request.pickup_node_id, request.dropoff_node_id)]

add_driver(driver_id, location, status) ==
    /\ drivers' = [d \in DOMAIN drivers \cup {driver_id} |->
                     IF d = driver_id THEN Driver(location, status) ELSE drivers[d]]
    /\ driver_order' = IF driver_id \in DOMAIN drivers THEN driver_order
                       ELSE Append(driver_order, driver_id)
    /\ UNCHANGED <<now, rides, active_rides, tickVars, loopVars, returned, city_graph>>

\* confirm_ride without the check of line 299
confirm_ride_checks_any_status(request, driver_id) ==
    IF driver_id \notin DOMAIN drivers THEN "Driver not found" ELSE "ok"

\* lines 293-300
confirm_ride_checks(request, driver_id) ==
    IF driver_id \notin DOMAIN drivers THEN "Driver not found"
    ELSE IF drivers[driver_id].status # "available" THEN "Driver is not available"
    ELSE "ok"

\* lines 293-329: the checks, then driver_to_pickup['predecessors']
confirm_ride_result(request, driver_id) ==
    IF confirm_ride_checks(request, driver_id) # "ok"
    THEN confirm_ride_checks(request, driver_id)
    ELSE IF "predecessors" \notin PathDetailsKeys THEN "KeyError"
    ELSE "ok"

\* lines 313-341: the ride is built, the driver marked, the ride stored
confirm_ride_commit(request, driver_id) ==
    LET paths == ConfirmPaths(request, drivers[driver_id])
        ride_id == now
        active_ride == ActiveRide(ride_id, request, driver_id,
                                  paths.driver_to_pickup, paths.pickup_to_dropoff, now)
    IN  /\ drivers' = update_driver_status(drivers, driver_id, "busy")
        /\ rides' = Append(rides, update_status(active_ride, "driver_en_route", now))
        /\ active_rides' = [r \in DOMAIN active_rides \cup {ride_id} |->
                              IF r = ride_id THEN Len(rides) + 1 ELSE active_rides[r]]
        /\ UNCHANGED <<now, tickVars, otherVars>>

confirm_ride(request, driver_id) ==
    IF confirm_ride_result(request, driver_id) # "ok" THEN UNCHANGED vars
    ELSE confirm_ride_commit(request, driver_id)

\* confirm_ride over a find_optimal_path whose result carries the predecessor
\* map: the checks of lines 293-300, then lines 313-341 with ConfirmPaths
confirm_ride_with_predecessors_result(request, driver_id) ==
    confirm_ride_checks(request, driver_id)

confirm_ride_with_predecessors(request, driver_id) ==
    IF confirm_ride_with_predecessors_result(request, driver_id) # "ok"
    THEN UNCHANGED vars
    ELSE confirm_ride_commit(request, driver_id)

\* get_current_location fails on a path of fewer than two nodes
StatusResult(ride) == IF SegmentDefined(ride) THEN "ok" ELSE "IndexError"

\* get_ride_status reading the ride before it looks the id up
get_ride_status_result_no_lookup(ride_id) ==
    IF ride_id \notin DOMAIN active_rides THEN "KeyError"
    ELSE StatusResult(rides[active_rides[ride_id]])

get_ride_status_result(ride_id) ==
    IF ride_id \notin DOMAIN active_rides THEN "Ride not found"
    ELSE StatusResult(rides[active_rides[ride_id]])

get_ride_status(ride_id) == UNCHANGED vars

\* start_ride without the check of line 417
start_ride_result_unchecked(ride_id) ==
    IF ride_id \notin DOMAIN active_rides THEN "Ride not found"
    ELSE StatusResult(rides[active_rides[ride_id]])

start_ride_result(ride_id) ==
    IF ride_id \notin DOMAIN active_rides THEN "Ride not found"
    ELSE IF rides[active_rides[ride_id]].status # "arrived"
    THEN "Driver has not arrived at pickup yet"
    ELSE StatusResult(rides[active_rides[ride_id]])

start_ride(ride_id) ==
    IF start_ride_result(ride_id) \in {"Ride not found", "Driver has not arrived at pickup yet"}
    THEN UNCHANGED vars
    ELSE /\ rides' = [rides EXCEPT ![active_rides[ride_id]] =
                                      update_status(@, "in_progress", now)]
         /\ UNCHANGED <<now, drivers, active_rides, tickVars, otherVars>>

cancel_ride_result(ride_id) ==
    IF ride_id \notin DOMAIN active_rides THEN "Ride not found"
    ELSE StatusResult(rides[active_rides[ride_id]])

cancel_ride(ride_id) ==
    IF cancel_ride_result(ride_id) = "Ride not found" THEN UNCHANGED vars
    ELSE LET o == active_rides[ride_id]
         IN  /\ rides' = [rides EXCEPT ![o] = update_status(@, "cancelled", now)]
             /\ drivers' = update_driver_status(drivers, rides[o].driver, "available")
             /\ UNCHANGED <<now, active_rides, tickVars, otherVars>>

\* complete_ride without the check of line 461
complete_ride_result_unchecked(ride_id) ==
    IF ride_id \notin DOMAIN active_rides THEN "Ride not found"
    ELSE StatusResult(rides[active_rides[ride_id]])

complete_ride_result(ride_id) ==
    IF ride_id \notin DOMAIN active_rides THEN "Ride not found"
    ELSE IF rides[active_rides[ride_id]].status # "in_progress"
    THEN "Ride is not in progress"
    ELSE StatusResult(rides[active_rides[ride_id]])

complete_ride(ride_id) ==
    IF complete_ride_result(ride_id) \in {"Ride not found", "Ride is not in progress"}
    THEN UNCHANGED vars
    ELSE LET o == active_rides[ride_id]
         IN  /\ rides' = [rides EXCEPT ![o] = update_status(@, "completed", now)]
             /\ drivers' = update_driver_status(drivers, rides[o].driver, "available")
             /\ UNCHANGED <<now, active_rides, tickVars, otherVars>>

(***************************************************************************)
(* RideSimulator: the simulation_loop thread                               *)
(***************************************************************************)
start_simulation ==
    /\ ~is_running
    /\ is_running' = TRUE
    /\ tick_pc' = "sleep"
    /\ last_update_time' = now
    /\ simulation_thread' = TRUE
    /\ UNCHANGED <<now, drivers, rides, active_rides, current_time, delta_time, todo,
                   notified, observers, stop_pc, join_deadline, returned,
                   driver_order, city_graph>>

\* list(self.active_rides.items()): ride ids were inserted in ascending order
RECURSIVE Items(_)
Items(ids) ==
    IF ids = {} THEN <<>>
    ELSE LET least == CHOOSE r \in ids : \A q \in ids : r <= q
         IN  <<<<least, active_rides[least]>>>> \o Items(ids \ {least})

\* lines 561-564: the driver of a ride completed long enough ago is available again
ReleaseDriver(ds, ride, t) ==
    IF /\ ride.status = "completed"
       /\ ride.completion_time # None
       /\ t - ride.completion_time > GraceDelay
    THEN update_driver_status(ds, ride.driver, "available")
    ELSE ds

\* lines 557-564 for one ride
LocateAndRelease(ds, ride, t) ==
    ReleaseDriver(update_driver_location(ds, ride.driver, get_current_location(ride)),
                  ride, t)

\* The body of "for ride_id, ride in list(self.active_rides.items())" (lines
\* 546-564) over the rides left in items, starting from the ride objects rs and
\* the registry ds, with the loop's locals ct (current_time) and dt
\* (delta_time), at clock t.  It runs until the list is done ("sleep"), until
\* the thread sleeps before an auto-start ("auto_start", items still headed by
\* that ride) or until get_current_segment raises IndexError ("crashed").
\* up, rs2 and ds2 below are the values of the loop's variables after each
\* statement, each computed once
TheOne(S) == CHOOSE x \in S : TRUE

RECURSIVE UpdateRides(_, _, _, _, _, _)
UpdateRides(items, rs, ds, ct, dt, t) ==
    IF items = <<>> THEN [rides |-> rs, drivers |-> ds, todo |-> items, pc |-> "sleep"]
    ELSE
      LET o == Head(items)[2]
          ride == rs[o]
      IN  IF ride.status \in {"driver_en_route", "in_progress"}
          THEN IF ~SegmentDefined(ride)
               THEN [rides |-> rs, drivers |-> ds, todo |-> items, pc |-> "crashed"]
               ELSE TheOne({
                      IF up.segment_completed /\ up.ride.status = "arrived"
                      THEN [rides |-> rs2, drivers |-> ds, todo |-> items,
                            pc |-> "auto_start"]
                      ELSE TheOne({UpdateRides(Tail(items), rs2, ds2, ct, dt, t) :
                                   ds2 \in {LocateAndRelease(ds, up.ride, ct)}})
                      : up \in {update_progress(ride, dt, t)},
                        rs2 \in {[rs EXCEPT ![o] = update_progress(ride, dt, t).ride]}})
          ELSE TheOne({UpdateRides(Tail(items), rs, ds2, ct, dt, t) :
                       ds2 \in {ReleaseDriver(ds, ride, ct)}})

\* get_simulation_state (lines 489-533) reads the location of every ride that
\* is not COMPLETED or CANCELLED; get_current_segment raises IndexError on a
\* path of fewer than two nodes
SnapshotRaises(rs) ==
    \E r \in DOMAIN active_rides :
        /\ rs[active_rides[r]].status \notin {"completed", "cancelled"}
        /\ ~SegmentDefined(rs[active_rides[r]])

\* the dictionary get_simulation_state returns (lines 496-533) when no ride
\* makes it raise: the rides of active_rides that are not COMPLETED or
\* CANCELLED by ride id, and the ids of the AVAILABLE drivers in the order of
\* the registry
get_simulation_state(rs, ds, order) ==
    [active_rides |->
        [r \in {id \in DOMAIN active_rides :
                  rs[active_rides[id]].status \notin {"completed", "cancelled"}} |->
            LET ride == rs[active_rides[r]]
            IN  [ride_id |-> ride.ride_id, status |-> ride.status, driver |-> ride.driver,
                 current_location |-> get_current_location(ride),
                 path_segment |-> ride.current_path_segment,
                 segment_progress |-> ride.covered]],
     available_drivers |-> get_available_drivers(ds, order, "None")]

\* the callbacks called by "for observer in self.observers", the one that
\* raises included: its exception ends the for loop
RECURSIVE CalledUntilRaise(_, _)
CalledUntilRaise(obs, i) ==
    IF i > Len(obs) THEN Len(obs)
    ELSE IF obs[i] = "raises" THEN i
    ELSE CalledUntilRaise(obs, i + 1)

\* notify_observers (lines 483-487): how many callbacks were called and
\* which exception left the call
notify_observers(rs, obs) ==
    IF SnapshotRaises(rs) THEN [called |-> 0, raised |-> "IndexError"]
    ELSE [called |-> CalledUntilRaise(obs, 1),
          raised |-> IF \E i \in 1..Len(obs) : obs[i] = "raises"
                     THEN "callback" ELSE "none"]

\* Lines 566-570 once the for loop has run to its end (out.pc = "sleep"): an
\* exception that leaves notify_observers leaves simulation_loop, and the
\* thread is over ("crashed" for IndexError, "observer_failed" for the
\* exception of a callback).
EndOfIteration(out) ==
    IF out.pc # "sleep" THEN [pc |-> out.pc, notified |-> notified]
    ELSE LET n == notify_observers(out.rides, observers)
         IN  [pc |-> IF n.raised = "IndexError" THEN "crashed"
                     ELSE IF n.raised = "callback" THEN "observer_failed"
                     ELSE "sleep",
              notified |-> n.called]

\* One iteration of the loop of simulation_loop (lines 539-570) from its start
\* to the next time.sleep.
Tick ==
    /\ tick_pc = "sleep"
    /\ is_running
    /\ LET ct == now
           dt == (now - last_update_time) * simulation_speed
       IN  \E out \in {UpdateRides(Items(DOMAIN active_rides), rides, drivers, ct, dt, now)} :
           /\ rides' = out.rides
           /\ drivers' = out.drivers
           /\ todo' = out.todo
           /\ tick_pc' = EndOfIteration(out).pc
           /\ notified' = EndOfIteration(out).notified
           /\ current_time' = IF out.pc = "sleep" THEN 0 ELSE ct
           /\ delta_time' = IF out.pc = "sleep" THEN 0 ELSE dt
    /\ last_update_time' = now
    /\ UNCHANGED <<now, active_rides, is_running, otherVars>>

\* The rest of the iteration after the sleep of line 554: self.start_ride(ride_id)
\* on whatever active_rides holds under that id, lines 557-564 for the ride of
\* the list, then the rides that follow it.
TickAutoStart ==
    /\ tick_pc = "auto_start"
    /\ LET ride_id == Head(todo)[1]
           o == Head(todo)[2]
           target == active_rides[ride_id]
           started == IF rides[target].status = "arrived"
                      THEN [rides EXCEPT ![target] = update_status(@, "in_progress", now)]
                      ELSE rides
           crash == \/ (rides[target].status = "arrived" /\ ~SegmentDefined(started[target]))
                    \/ ~SegmentDefined(started[o])
           rest == IF crash
                   THEN [rides |-> started, drivers |-> drivers, todo |-> todo,
                         pc |-> "crashed"]
                   ELSE UpdateRides(Tail(todo), started,
                                    LocateAndRelease(drivers, started[o], current_time),
                                    current_time, delta_time, now)
       IN  \E out \in {rest} :
           /\ rides' = out.rides
           /\ drivers' = out.drivers
           /\ todo' = out.todo
           /\ tick_pc' = EndOfIteration(out).pc
           /\ notified' = EndOfIteration(out).notified
           /\ current_time' = IF out.pc = "sleep" THEN 0 ELSE current_time
           /\ delta_time' = IF out.pc = "sleep" THEN 0 ELSE delta_time
    /\ UNCHANGED <<now, active_rides, is_running, last_update_time, otherVars>>

\* the wall clock, up to second n
AdvanceClockUpTo(n) ==
    /\ now < n
    /\ now' = now + 1
    /\ UNCHANGED <<drivers, rides, active_rides, tickVars, otherVars>>

\* no function of pathfinding.py or of the matcher has been called
NoCall == [op |-> "none"]

RideIdInputs == DOMAIN active_rides \cup {UnknownRide}

Init ==
    /\ now = 0
    /\ drivers = NoDrivers
    /\ rides = <<>>
    /\ active_rides = NoRides
    /\ is_running = FALSE
    /\ last_update_time = None
    /\ tick_pc = "not_started"
    /\ current_time = 0
    /\ delta_time = 0
    /\ todo = <<>>
    /\ observers = <<>>
    /\ notified = 0
    /\ simulation_thread = FALSE
    /\ stop_pc = "idle"
    /\ join_deadline = 0
    /\ returned = NoCall
    /\ driver_order = <<>>
    /\ city_graph = ChainGraph

(***************************************************************************)
(* Specifications.  Every call of an operation is one step; the            *)
(* simulation_loop thread takes one step from one time.sleep to the next.  *)
(*                                                                         *)
(*   SpecShipped  the program as it is.  confirm_ride raises KeyError      *)
(*                after its two checks, so active_rides stays empty.       *)
(*   Spec         the ride lifecycle: confirm_ride hands ConfirmPaths to   *)
(*                ActiveRide, up to MaxRides rides and second MaxTime.     *)
(*   SpecWide     Spec with up to MaxRidesWide rides and second            *)
(*                MaxTimeWide.                                             *)
(***************************************************************************)
\* the drivers register one after the other before anything else happens
AddDriver ==
    LET i == Cardinality(DOMAIN drivers) + 1
    IN  /\ i <= Len(DriverInputs)
        /\ now = 0 /\ rides = <<>> /\ ~is_running
        /\ add_driver(DriverInputs[i].id, DriverInputs[i].location, DriverInputs[i].status)

DriverIdInputs == DriverIds \cup {"nobody"}
ConfirmRideUpTo(n) ==
    \E q \in Requests, d \in DriverIdInputs :
        /\ confirm_ride_with_predecessors_result(q, d) = "ok" => Len(rides) < n
        /\ confirm_ride_with_predecessors(q, d)
ConfirmRide == ConfirmRideUpTo(MaxRides)
ConfirmRideWide == ConfirmRideUpTo(MaxRidesWide)
ConfirmRideShipped == \E q \in Requests, d \in DriverIdInputs : confirm_ride(q, d)
GetRideStatus == \E r \in RideIdInputs : get_ride_status(r)
StartRide == \E r \in RideIdInputs : start_ride(r)
CancelRide == \E r \in RideIdInputs : cancel_ride(r)
CompleteRide == \E r \in RideIdInputs : complete_ride(r)
AdvanceClock == AdvanceClockUpTo(MaxTime)
AdvanceClockWide == AdvanceClockUpTo(MaxTimeWide)

Next ==
    \/ AddDriver
    \/ ConfirmRide
    \/ GetRideStatus
    \/ StartRide
    \/ CancelRide
    \/ CompleteRide
    \/ start_simulation
    \/ Tick
    \/ TickAutoStart
    \/ AdvanceClock

Spec == Init /\ [][Next]_vars

NextWide ==
    \/ AddDriver
    \/ ConfirmRideWide
    \/ GetRideStatus
    \/ StartRide
    \/ CancelRide
    \/ CompleteRide
    \/ start_simulation
    \/ Tick
    \/ TickAutoStart
    \/ AdvanceClockWide

SpecWide == Init /\ [][NextWide]_vars

\* drivers register in any status, at any spot and at any time
AddAnyDriver ==
    \E d \in DriverIds, l \in DriverSpots, s \in DriverStatus :
        /\ d \notin DOMAIN drivers
        /\ add_driver(d, l, s)

NextShipped ==
    \/ AddAnyDriver
    \/ ConfirmRideShipped
    \/ GetRideStatus
    \/ StartRide
    \/ CancelRide
    \/ CompleteRide
    \/ start_simulation
    \/ Tick
    \/ AdvanceClock

SpecShipped == Init /\ [][NextShipped]_vars

(***************************************************************************)
(* SpecThreads: the simulation_loop thread at the grain of the statements  *)
(* that test a status and then set one.  simulation.py takes no lock, so   *)
(* another thread may run between the test of line 160 or 165 and the      *)
(* update_status call of line 161 or 166, and between the test of line 416 *)
(* and the call of line 420.  The thread is stopped at these points only;  *)
(* everything between two of them is one step.                             *)
(***************************************************************************)
\* update_progress from line 126 to the tests of lines 157-165: the ride after
\* lines 149-154 and the status the update_status call that comes next will
\* set ("none" when no call is reached)
update_progress_to_test(ride, dt) ==
    IF ride.status \in {"completed", "cancelled"}
    THEN [ride |-> ride, next_status |-> "none", segment_completed |-> FALSE]
    ELSE
      LET progress == ride.covered + distance_covered(dt)
      IN  IF progress >= segment_distance(ride)
          THEN LET moved == [ride EXCEPT !.current_path_segment = @ + 1, !.covered = 0]
               IN  [ride |-> moved,
                    next_status |->
                        IF moved.current_path_segment >= Len(PathOf(moved)) - 1
                        THEN IF moved.status = "driver_en_route" THEN "arrived"
                             ELSE IF moved.status = "in_progress" THEN "completed"
                             ELSE "none"
                        ELSE "none",
                    segment_completed |-> TRUE]
          ELSE [ride |-> [ride EXCEPT !.covered = progress],
                next_status |-> "none", segment_completed |-> FALSE]

\* UpdateRides, stopping also before the update_status call of update_progress
\* ("set_arrived", "set_completed", items still headed by that ride)
RECURSIVE UpdateRidesByStatement(_, _, _, _, _, _)
UpdateRidesByStatement(items, rs, ds, ct, dt, t) ==
    IF items = <<>> THEN [rides |-> rs, drivers |-> ds, todo |-> items, pc |-> "sleep"]
    ELSE
      LET o == Head(items)[2]
          ride == rs[o]
      IN  IF ride.status \in {"driver_en_route", "in_progress"}
          THEN IF ~SegmentDefined(ride)
               THEN [rides |-> rs, drivers |-> ds, todo |-> items, pc |-> "crashed"]
               ELSE LET up == update_progress_to_test(ride, dt)
                        rs2 == [rs EXCEPT ![o] = up.ride]
                    IN  IF up.next_status # "none"
                        THEN [rides |-> rs2, drivers |-> ds, todo |-> items,
                              pc |-> IF up.next_status = "arrived" THEN "set_arrived"
                                     ELSE "set_completed"]
                        ELSE UpdateRidesByStatement(Tail(items), rs2,
                                 LocateAndRelease(ds, up.ride, ct), ct, dt, t)
          ELSE UpdateRidesByStatement(Tail(items), rs, ReleaseDriver(ds, ride, ct),
                                      ct, dt, t)

\* the loop's variables after a part of an iteration that ended as out says
TickContinues(out) ==
    /\ rides' = out.rides
    /\ drivers' = out.drivers
    /\ todo' = out.todo
    /\ tick_pc' = EndOfIteration(out).pc
    /\ notified' = EndOfIteration(out).notified

\* from the time.sleep of line 570 to the next point where the thread stops
TickByStatement ==
    /\ tick_pc = "sleep"
    /\ is_running
    /\ LET dt == (now - last_update_time) * simulation_speed
           out == UpdateRidesByStatement(Items(DOMAIN active_rides), rides, drivers,
                                         now, dt, now)
       IN  /\ TickContinues(out)
           /\ current_time' = IF out.pc = "sleep" THEN 0 ELSE now
           /\ delta_time' = IF out.pc = "sleep" THEN 0 ELSE dt
    /\ last_update_time' = now
    /\ UNCHANGED <<now, active_rides, is_running, otherVars>>

\* Line 161 or 166: self.update_status(...) on the ride as it is now, whatever
\* another thread has done to it since the test; then line 170 returns True
\* and the loop goes on at line 550.
TickUpdateStatus ==
    /\ tick_pc \in {"set_arrived", "set_completed"}
    /\ LET o == Head(todo)[2]
           new_status == IF tick_pc = "set_arrived" THEN "arrived" ELSE "completed"
           rs == [rides EXCEPT ![o] = update_status(@, new_status, now)]
           out == IF rs[o].status = "arrived"
                  THEN [rides |-> rs, drivers |-> drivers, todo |-> todo,
                        pc |-> "auto_start"]
                  ELSE UpdateRidesByStatement(Tail(todo), rs,
                           LocateAndRelease(drivers, rs[o], current_time),
                           current_time, delta_time, now)
       IN  /\ TickContinues(out)
           /\ current_time' = IF out.pc = "sleep" THEN 0 ELSE current_time
           /\ delta_time' = IF out.pc = "sleep" THEN 0 ELSE delta_time
    /\ UNCHANGED <<now, active_rides, is_running, last_update_time, otherVars>>

\* lines 557-564 for the ride of the list after start_ride has left the ride
\* objects as started, then the rides that follow it
AfterStartRide(started) ==
    IF ~SegmentDefined(started[Head(todo)[2]])
    THEN [rides |-> started, drivers |-> drivers, todo |-> todo, pc |-> "crashed"]
    ELSE UpdateRidesByStatement(Tail(todo), started,
             LocateAndRelease(drivers, started[Head(todo)[2]], current_time),
             current_time, delta_time, now)

\* After the sleep of line 554: start_ride up to its test of line 416.  A ride
\* that is ARRIVED takes the thread to the call of line 420; for any other
\* status start_ride returns its error and the iteration goes on.
TickStartRideTest ==
    /\ tick_pc = "auto_start"
    /\ IF rides[active_rides[Head(todo)[1]]].status = "arrived"
       THEN /\ tick_pc' = "set_in_progress"
            /\ UNCHANGED <<rides, drivers, todo, notified, current_time, delta_time>>
       ELSE LET out == AfterStartRide(rides)
            IN  /\ TickContinues(out)
                /\ current_time' = IF out.pc = "sleep" THEN 0 ELSE current_time
                /\ delta_time' = IF out.pc = "sleep" THEN 0 ELSE delta_time
    /\ UNCHANGED <<now, active_rides, is_running, last_update_time, otherVars>>

\* Line 420: ride.update_status(IN_PROGRESS) on the ride as it is now, and
\* line 422, whose get_ride_status reads the ride's location.
TickStartRide ==
    /\ tick_pc = "set_in_progress"
    /\ LET target == active_rides[Head(todo)[1]]
           started == [rides EXCEPT ![target] = update_status(@, "in_progress", now)]
           out == IF ~SegmentDefined(started[target])
                  THEN [rides |-> started, drivers |-> drivers, todo |-> todo,
                        pc |-> "crashed"]
                  ELSE AfterStartRide(started)
       IN  /\ TickContinues(out)
           /\ current_time' = IF out.pc = "sleep" THEN 0 ELSE current_time
           /\ delta_time' = IF out.pc = "sleep" THEN 0 ELSE delta_time
    /\ UNCHANGED <<now, active_rides, is_running, last_update_time, otherVars>>

NextThreads ==
    \/ AddDriver
    \/ ConfirmRide
    \/ GetRideStatus
    \/ StartRide
    \/ CancelRide
    \/ CompleteRide
    \/ start_simulation
    \/ TickByStatement
    \/ TickUpdateStatus
    \/ TickStartRideTest
    \/ TickStartRide
    \/ AdvanceClock

SpecThreads == Init /\ [][NextThreads]_vars

(***************************************************************************)
(* SpecLoop: the life of the simulation_loop thread with observers,        *)
(* start_simulation and stop_simulation.  stop_simulation is two steps,    *)
(* the call up to join and the return from join.  One loop thread exists   *)
(* at a time: start_simulation is called when no earlier thread is alive.  *)
(***************************************************************************)
MaxObservers == 2
JoinTimeout == 1
ObserverKinds == {"returns", "raises"}

add_observer(callback) ==
    /\ observers' = Append(observers, callback)
    /\ UNCHANGED <<now, drivers, rides, active_rides, tickVars, simulation_thread,
                   stop_pc, join_deadline, returned, driver_order, city_graph>>

AddObserver ==
    \E c \in ObserverKinds : Len(observers) < MaxObservers /\ add_observer(c)

\* the thread is over: its loop was left or an exception left simulation_loop
ThreadOver == tick_pc \in {"not_started", "ended", "crashed", "observer_failed"}

StartSimulation == ThreadOver /\ start_simulation

\* stop_simulation, lines 584-586 up to the wait of join(timeout=1.0); with no
\* thread in self.simulation_thread the call is over at once
stop_simulation ==
    /\ stop_pc = "idle"
    /\ is_running' = FALSE
    /\ IF simulation_thread
       THEN stop_pc' = "join" /\ join_deadline' = now + JoinTimeout
       ELSE UNCHANGED <<stop_pc, join_deadline>>
    /\ UNCHANGED <<now, drivers, rides, active_rides, last_update_time, tick_pc,
                   current_time, delta_time, todo, notified, observers,
                   simulation_thread, returned, driver_order, city_graph>>

\* join returns when the thread is over or when the timeout has passed,
\* whichever comes first; line 587 then drops the thread and the call returns
StopSimulationReturns ==
    /\ stop_pc = "join"
    /\ ThreadOver \/ now >= join_deadline
    /\ stop_pc' = "idle"
    /\ simulation_thread' = FALSE
    /\ UNCHANGED <<now, drivers, rides, active_rides, tickVars, observers,
                   join_deadline, returned, driver_order, city_graph>>

\* line 539 after the sleep of line 570: is_running is False, the loop is left
TickExit ==
    /\ tick_pc = "sleep"
    /\ ~is_running
    /\ tick_pc' = "ended"
    /\ UNCHANGED <<now, drivers, rides, active_rides, is_running, last_update_time,
                   current_time, delta_time, todo, notified, otherVars>>

NextLoop ==
    \/ AddDriver
    \/ AddObserver
    \/ ConfirmRide
    \/ StartSimulation
    \/ stop_simulation
    \/ StopSimulationReturns
    \/ Tick
    \/ TickAutoStart
    \/ TickExit
    \/ AdvanceClock

SpecLoop == Init /\ [][NextLoop]_vars

\* SpecObservers: the loop, its observers and its start and stop in the
\* program as it is, where no ride is ever stored.
NextObservers ==
    \/ AddDriver
    \/ AddObserver
    \/ ConfirmRideShipped
    \/ StartSimulation
    \/ stop_simulation
    \/ StopSimulationReturns
    \/ Tick
    \/ TickExit
    \/ AdvanceClock

SpecObservers == Init /\ [][NextObservers]_vars

(***************************************************************************)
(* SpecPath: the functions of pathfinding.py on graphs drawn from          *)
(* GraphInputs.  Node 1 lies at latitude 0, nodes 2 and 3 at any latitude  *)
(* of Coords, node 4 has no edge; each directed edge of EdgeInputs is      *)
(* absent or carries any distance and time of Weights (add_edge with       *)
(* bidirectional=False).  One call is made on each graph.                  *)
(***************************************************************************)
MaxCoord == 2
Coords == 0..MaxCoord
Weights == {0, 1}
EdgeInputs == <<<<1, 3>>, <<3, 2>>, <<1, 2>>, <<2, 3>>>>
NoEdge == [distance |-> None, time |-> None]
EdgeChoices == [distance : Weights, time : Weights] \cup {NoEdge}
UnknownNode == 5

GraphOf(lat, edges) ==
    [lat |-> lat,
     neighbors |-> [n \in Nodes |->
        {[to |-> EdgeInputs[i][2], distance |-> edges[i].distance, time |-> edges[i].time] :
            i \in {j \in DOMAIN EdgeInputs : EdgeInputs[j][1] = n /\ edges[j] # NoEdge}}]]

GraphInputs ==
    {GraphOf(lat, edges) : lat \in {l \in [Nodes -> Coords] : l[1] = 0 /\ l[4] = 0},
                           edges \in [DOMAIN EdgeInputs -> EdgeChoices]}

\* node lists handed to get_path_details, some with an id the graph lacks
PathInputs == {<<>>, <<1>>, <<1, 2>>, <<1, 3, 2>>, <<1, UnknownNode, 2>>,
               <<UnknownNode, 1, 2>>, <<1, 2, UnknownNode>>, <<UnknownNode>>}

InitPath ==
    /\ now = 0
    /\ drivers = NoDrivers
    /\ rides = <<>>
    /\ active_rides = NoRides
    /\ is_running = FALSE
    /\ last_update_time = None
    /\ tick_pc = "not_started"
    /\ current_time = 0
    /\ delta_time = 0
    /\ todo = <<>>
    /\ observers = <<>>
    /\ notified = 0
    /\ simulation_thread = FALSE
    /\ stop_pc = "idle"
    /\ join_deadline = 0
    /\ returned = NoCall
    /\ driver_order = <<>>
    /\ city_graph \in GraphInputs

FindOptimalPath ==
    \E start_id \in Nodes, goal_id \in Nodes, algorithm \in Algorithms, cost_type \in CostTypes :
        /\ returned = NoCall
        /\ returned' = [op |-> "find_optimal_path", start_id |-> start_id,
                        goal_id |-> goal_id,
                        out |-> find_optimal_path(start_id, goal_id, algorithm, cost_type)]
        /\ UNCHANGED <<now, drivers, rides, active_rides, tickVars, loopVars,
                       driver_order, city_graph>>

GetPathDetails ==
    \E path \in PathInputs :
        /\ returned = NoCall
        /\ returned' = [op |-> "get_path_details", path |-> path,
                        raised |-> "none", out |-> get_path_details(path)]
        /\ UNCHANGED <<now, drivers, rides, active_rides, tickVars, loopVars,
                       driver_order, city_graph>>

NextPath ==
    \/ FindOptimalPath
    \/ GetPathDetails

SpecPath == InitPath /\ [][NextPath]_vars

(***************************************************************************)
(* SpecMatch: find_nearest_drivers and match_driver_to_request on          *)
(* registries drawn from RegistryInputs.  The drivers of MatchDriverIds    *)
(* were added in that order, each at a spot of Coords, AVAILABLE or BUSY,  *)
(* with a sedan or an suv; the graph is the chain of the rides or the same *)
(* chain with roads six times slower.  One call is made on each registry.  *)
(***************************************************************************)
MaxCount == 2
MatchDriverIds == <<"d1", "d2">>
VehicleTypes == {"sedan", "suv"}
SlowChainGraph ==
    [lat |-> ChainLat,
     neighbors |-> [n \in Nodes |->
        {[to |-> e.to, distance |-> e.distance, time |-> 6 * e.time] :
            e \in ChainNeighbors[n]}]]
MatchGraphs == {ChainGraph, SlowChainGraph}
\* dropoff_location of a request: not given, or the far end of Coords
DropoffInputs == {None, MaxCoord}

\* the registries of the first n drivers of MatchDriverIds
RegistryInputs(n) ==
    [{MatchDriverIds[i] : i \in 1..n} ->
        {DriverOfType(l, st, v) : l \in Coords, st \in {"available", "busy"},
                                  v \in VehicleTypes}]

InitMatch ==
    /\ now = 0
    /\ rides = <<>>
    /\ active_rides = NoRides
    /\ is_running = FALSE
    /\ last_update_time = None
    /\ tick_pc = "not_started"
    /\ current_time = 0
    /\ delta_time = 0
    /\ todo = <<>>
    /\ observers = <<>>
    /\ notified = 0
    /\ simulation_thread = FALSE
    /\ stop_pc = "idle"
    /\ join_deadline = 0
    /\ returned = NoCall
    /\ city_graph \in MatchGraphs
    /\ \E n \in 0..Len(MatchDriverIds) :
        /\ driver_order = SubSeq(MatchDriverIds, 1, n)
        /\ drivers \in RegistryInputs(n)

FindNearestDrivers ==
    \E location \in Coords, max_count \in 0..MaxCount, max_distance \in Coords,
       vehicle_type \in VehicleTypes \cup {"None"} :
        /\ returned = NoCall
        /\ returned' = [op |-> "find_nearest_drivers", location |-> location,
                        max_count |-> max_count, max_distance |-> max_distance,
                        vehicle_type |-> vehicle_type,
                        out |-> find_nearest_drivers(drivers, driver_order, location,
                                    max_count, max_distance, vehicle_type)]
        /\ UNCHANGED <<now, drivers, rides, active_rides, tickVars, loopVars,
                       driver_order, city_graph>>

MatchDriverToRequest ==
    \E pickup_location \in Coords, dropoff_location \in DropoffInputs,
       vehicle_type \in VehicleTypes,
       max_candidates \in 0..MaxCount, max_distance \in Coords :
        LET request == [pickup_location |-> pickup_location, pickup_node_id |-> None,
                        dropoff_location |-> dropoff_location,
                        dropoff_node_id |-> None,
                        vehicle_type |-> vehicle_type]
        IN  /\ returned = NoCall
            /\ returned' = [op |-> "match_driver_to_request", request |-> request,
                            max_candidates |-> max_candidates,
                            max_distance |-> max_distance,
                            searches |-> find_optimal_path_calls(drivers, driver_order,
                                            request, max_candidates, max_distance),
                            out |-> match_driver_to_request(drivers, driver_order,
                                        request, max_candidates, max_distance)]
            /\ UNCHANGED <<now, drivers, rides, active_rides, tickVars, loopVars,
                           driver_order, city_graph>>

NextMatch ==
    \/ FindNearestDrivers
    \/ MatchDriverToRequest

SpecMatch == InitMatch /\ [][NextMatch]_vars

(***************************************************************************)
(* SpecFare: estimate_fare on requests, path details and local hours drawn *)
(* from bounded sets, on the chain and on a chain whose roads are twice as *)
(* long as the straight line, with no driver or one driver registered.     *)
(***************************************************************************)
LongChainGraph ==
    [lat |-> ChainLat,
     neighbors |-> [n \in Nodes |->
        {[to |-> e.to, distance |-> 2 * e.distance, time |-> e.time] :
            e \in ChainNeighbors[n]}]]
FareGraphs == {ChainGraph, LongChainGraph}
FareVehicleTypes == {"mini", "sedan", "premium", "suv", "xl", "SUV", "auto"}
Hours == 0..23
FareNodeInputs == {None, 1, 4}
\* the path_details argument: calculate_driver_eta's dictionary
EtaDetailsInputs == {[total_distance |-> 0, total_time |-> 0],
                     [total_distance |-> 304, total_time |-> 300]}

InitFare ==
    /\ now = 0
    /\ rides = <<>>
    /\ active_rides = NoRides
    /\ is_running = FALSE
    /\ last_update_time = None
    /\ tick_pc = "not_started"
    /\ current_time = 0
    /\ delta_time = 0
    /\ todo = <<>>
    /\ observers = <<>>
    /\ notified = 0
    /\ simulation_thread = FALSE
    /\ stop_pc = "idle"
    /\ join_deadline = 0
    /\ returned = NoCall
    /\ city_graph \in FareGraphs
    /\ \E n \in 0..1 :
        /\ driver_order = SubSeq(MatchDriverIds, 1, n)
        /\ drivers = [d \in {MatchDriverIds[i] : i \in 1..n} |->
                         DriverOfType(0, "available", "suv")]

EstimateFare ==
    \E pickup_node_id \in FareNodeInputs, dropoff_node_id \in FareNodeInputs,
       vehicle_type \in FareVehicleTypes, eta_details \in EtaDetailsInputs,
       current_hour \in Hours :
        LET request == [pickup_location |-> 0, pickup_node_id |-> pickup_node_id,
                        dropoff_location |-> None,
                        dropoff_node_id |-> dropoff_node_id,
                        vehicle_type |-> vehicle_type]
        IN  /\ returned = NoCall
            /\ \E fare \in estimate_fare(request, eta_details, current_hour) :
                returned' = [op |-> "estimate_fare", request |-> request,
                             eta_details |-> eta_details,
                             current_hour |-> current_hour, out |-> fare]
            /\ UNCHANGED <<now, drivers, rides, active_rides, tickVars, loopVars,
                           driver_order, city_graph>>

NextFare == EstimateFare

SpecFare == InitFare /\ [][NextFare]_vars

(***************************************************************************)
(* SpecRegistry: the driver registry of the matcher under any sequence of  *)
(* add_driver, update_driver_location and update_driver_status calls on    *)
(* the chain graph.  Drivers are constructed AVAILABLE at a spot of        *)
(* Coords, without a nearest node or with node PresetNode.                 *)
(***************************************************************************)
PresetNode == 4
StatusInputs == DriverStatus \cup {"invalid"}

MatcherAddDriver ==
    \E driver_id \in DriverIds, location \in Coords,
       nearest_node_id \in {None, PresetNode} :
        /\ drivers' = matcher_add_driver(drivers, driver_id,
                          DriverWithNode(location, nearest_node_id, "available", "sedan"))
        /\ driver_order' = IF driver_id \in DOMAIN drivers THEN driver_order
                           ELSE Append(driver_order, driver_id)
        /\ returned' = [op |-> "add_driver", driver_id |-> driver_id, out |-> TRUE]
        /\ UNCHANGED <<now, rides, active_rides, tickVars, loopVars, city_graph>>

UpdateDriverLocationOf(driver_id, location) ==
    /\ drivers' = update_driver_location(drivers, driver_id, location)
    /\ returned' = [op |-> "update_driver_location", driver_id |-> driver_id,
                    out |-> update_driver_location_result(drivers, driver_id)]
    /\ UNCHANGED <<now, rides, active_rides, tickVars, loopVars, driver_order,
                   city_graph>>

UpdateDriverLocation ==
    \E driver_id \in DriverIdInputs, location \in Coords :
        UpdateDriverLocationOf(driver_id, location)

UpdateDriverStatusOf(driver_id, status) ==
    /\ drivers' = update_driver_status(drivers, driver_id, status)
    /\ returned' = [op |-> "update_driver_status", driver_id |-> driver_id,
                    out |-> update_driver_status_result(drivers, driver_id, status)]
    /\ UNCHANGED <<now, rides, active_rides, tickVars, loopVars, driver_order,
                   city_graph>>

UpdateDriverStatus ==
    \E driver_id \in DriverIdInputs, status \in StatusInputs :
        UpdateDriverStatusOf(driver_id, status)

NextRegistry ==
    \/ MatcherAddDriver
    \/ UpdateDriverLocation
    \/ UpdateDriverStatus

SpecRegistry == Init /\ [][NextRegistry]_vars

(***************************************************************************)
(* SpecNearest: get_nearest_node on graphs whose four nodes lie anywhere   *)
(* on Coords, several on one spot included, for query points on Coords and *)
(* one step beyond.                                                        *)
(***************************************************************************)
NearestGraphs == {[lat |-> l, neighbors |-> ChainNeighbors] : l \in [Nodes -> Coords]}
QueryCoords == 0..(MaxCoord + 1)

InitNearest ==
    /\ now = 0
    /\ drivers = NoDrivers
    /\ driver_order = <<>>
    /\ rides = <<>>
    /\ active_rides = NoRides
    /\ is_running = FALSE
    /\ last_update_time = None
    /\ tick_pc = "not_started"
    /\ current_time = 0
    /\ delta_time = 0
    /\ todo = <<>>
    /\ observers = <<>>
    /\ notified = 0
    /\ simulation_thread = FALSE
    /\ stop_pc = "idle"
    /\ join_deadline = 0
    /\ returned = NoCall
    /\ city_graph \in NearestGraphs

GetNearestNode ==
    \E lat \in QueryCoords :
        /\ returned = NoCall
        /\ returned' = [op |-> "get_nearest_node", lat |-> lat,
                        out |-> get_nearest_node(lat)]
        /\ UNCHANGED <<now, drivers, rides, active_rides, tickVars, loopVars,
                       driver_order, city_graph>>

NextNearest == GetNearestNode

SpecNearest == InitNearest /\ [][NextNearest]_vars

(***************************************************************************)
(* SpecStore: save_to_file and load_from_file.  A graph is the record of   *)
(* city_graph, here with any set of nodes; the file is what json.dump      *)
(* writes: the nodes as an object of entries (key, id, lat) in insertion   *)
(* order and the edges as a list of (from, to, distance, time).  json      *)
(* writes a float so that reading it back gives the same float.  The       *)
(* graphs saved are built by add_node and add_edge from StoreNodeSets and  *)
(* StoreEdges; the file written is kept in returned until it is loaded.    *)
(***************************************************************************)
EmptyGraph == [lat |-> [n \in {} |-> 0], neighbors |-> [n \in {} |-> {}]]

\* CityGraph.add_node with a new CityNode (no neighbours yet)
add_node(g, node_id, lat) ==
    [lat |-> [n \in DOMAIN g.lat \cup {node_id} |->
                 IF n = node_id THEN lat ELSE g.lat[n]],
     neighbors |-> [n \in DOMAIN g.lat \cup {node_id} |->
                 IF n = node_id THEN {} ELSE g.neighbors[n]]]

\* CityNode.add_neighbor: self.neighbors[neighbor_id] = (distance, time)
add_neighbor(g, node_id, neighbor_id, distance, time) ==
    [g EXCEPT !.neighbors[node_id] =
        {e \in g.neighbors[node_id] : e.to # neighbor_id}
            \cup {[to |-> neighbor_id, distance |-> distance, time |-> time]}]

\* CityGraph.add_edge
add_edge(g, node1_id, node2_id, distance, time, bidirectional) ==
    IF node1_id \in DOMAIN g.lat /\ node2_id \in DOMAIN g.lat
    THEN LET one == add_neighbor(g, node1_id, node2_id, distance, time)
         IN  IF bidirectional
             THEN add_neighbor(one, node2_id, node1_id, distance, time)
             ELSE one
    ELSE g

\* the entries of a neighbors dictionary as a list
RECURSIVE NeighborList(_)
NeighborList(es) ==
    IF es = {} THEN <<>>
    ELSE LET e == CHOOSE x \in es : \A y \in es : x.to <= y.to
         IN  <<e>> \o NeighborList(es \ {e})

\* lines 164-171: the edge entries of the nodes order[i..]
RECURSIVE SavedEdges(_, _, _)
SavedEdges(g, order, i) ==
    IF i > Len(order) THEN <<>>
    ELSE LET list == NeighborList(g.neighbors[order[i]])
         IN  [j \in 1..Len(list) |->
                 [from |-> order[i], to |-> list[j].to,
                  distance |-> list[j].distance, time |-> list[j].time]]
             \o SavedEdges(g, order, i + 1)

\* save_to_file: the data written, order being the keys of self.nodes
save_to_file(g, order) ==
    [nodes |-> [i \in 1..Len(order) |->
                   [key |-> order[i], id |-> order[i], lat |-> g.lat[order[i]]]],
     edges |-> SavedEdges(g, order, 1)]

\* lines 196-203: the nodes of the file added to the graph
RECURSIVE LoadNodes(_, _, _)
LoadNodes(nodes, i, g) ==
    IF i > Len(nodes) THEN g
    ELSE LoadNodes(nodes, i + 1, add_node(g, nodes[i].id, nodes[i].lat))

\* lines 206-213: the edges of the file added to the graph
RECURSIVE LoadEdges(_, _, _, _)
LoadEdges(edges, i, g, bidirectional) ==
    IF i > Len(edges) THEN g
    ELSE LoadEdges(edges, i + 1,
                   add_edge(g, edges[i].from, edges[i].to, edges[i].distance,
                            edges[i].time, bidirectional),
                   bidirectional)

\* load_from_file with add_edge's default bidirectional=True
load_from_file_bidirectional(file) ==
    LoadEdges(file.edges, 1, LoadNodes(file.nodes, 1, EmptyGraph), TRUE)

\* load_from_file: the graph built from the data of the file
load_from_file(file) ==
    LoadEdges(file.edges, 1, LoadNodes(file.nodes, 1, EmptyGraph), FALSE)

StoreNodeSets == {{}, {1}, {1, 2}, {1, 2, 3}}
StoreEdges == <<[from |-> 1, to |-> 2, bidirectional |-> FALSE],
                [from |-> 2, to |-> 1, bidirectional |-> FALSE],
                [from |-> 2, to |-> 3, bidirectional |-> TRUE],
                [from |-> 3, to |-> 3, bidirectional |-> FALSE]>>

\* the keys of self.nodes in insertion order
NodeOrder(g) == SelectSeq(NodeIds, LAMBDA n : n \in DOMAIN g.lat)

RECURSIVE AddNodes(_, _, _)
AddNodes(ids, i, g) ==
    IF i > Len(NodeIds) THEN g
    ELSE AddNodes(ids, i + 1,
                  IF NodeIds[i] \in ids THEN add_node(g, NodeIds[i], ChainLat[NodeIds[i]])
                  ELSE g)

RECURSIVE AddEdges(_, _, _)
AddEdges(weights, i, g) ==
    IF i > Len(StoreEdges) THEN g
    ELSE AddEdges(weights, i + 1,
                  IF weights[i] = NoEdge THEN g
                  ELSE add_edge(g, StoreEdges[i].from, StoreEdges[i].to,
                                weights[i].distance, weights[i].time,
                                StoreEdges[i].bidirectional))

StoreGraphs ==
    {AddEdges(weights, 1, AddNodes(ids, 1, EmptyGraph)) :
        ids \in StoreNodeSets, weights \in [DOMAIN StoreEdges -> EdgeChoices]}

InitStore ==
    /\ now = 0
    /\ drivers = NoDrivers
    /\ driver_order = <<>>
    /\ rides = <<>>
    /\ active_rides = NoRides
    /\ is_running = FALSE
    /\ last_update_time = None
    /\ tick_pc = "not_started"
    /\ current_time = 0
    /\ delta_time = 0
    /\ todo = <<>>
    /\ observers = <<>>
    /\ notified = 0
    /\ simulation_thread = FALSE
    /\ stop_pc = "idle"
    /\ join_deadline = 0
    /\ returned = NoCall
    /\ city_graph \in StoreGraphs

SaveToFile ==
    /\ returned = NoCall
    /\ returned' = [op |-> "save_to_file",
                    file |-> save_to_file(city_graph, NodeOrder(city_graph))]
    /\ UNCHANGED <<now, drivers, rides, active_rides, tickVars, loopVars,
                   driver_order, city_graph>>

LoadFromFile ==
    /\ returned.op = "save_to_file"
    /\ returned' = [op |-> "load_from_file", out |-> load_from_file(returned.file)]
    /\ UNCHANGED <<now, drivers, rides, active_rides, tickVars, loopVars,
                   driver_order, city_graph>>

NextStore ==
    \/ SaveToFile
    \/ LoadFromFile

SpecStore == InitStore /\ [][NextStore]_vars

(***************************************************************************)
(* SpecArgs: find_optimal_path called with any arguments: node ids the     *)
(* graph has or lacks, algorithms and cost types that exist or not.        *)
(***************************************************************************)
OneWayGraph ==
    GraphOf(ChainLat,
            [i \in DOMAIN EdgeInputs |->
                IF i <= 2 THEN [distance |-> 1, time |-> 1] ELSE NoEdge])
ArgGraphs == {ChainGraph, SlowChainGraph, LongChainGraph, OneWayGraph}
NodeArgs == Nodes \cup {UnknownNode}
AlgorithmArgs == Algorithms \cup {"bfs", "Dijkstra"}
CostTypeArgs == CostTypes \cup {"price"}

InitArgs ==
    /\ now = 0
    /\ drivers = NoDrivers
    /\ driver_order = <<>>
    /\ rides = <<>>
    /\ active_rides = NoRides
    /\ is_running = FALSE
    /\ last_update_time = None
    /\ tick_pc = "not_started"
    /\ current_time = 0
    /\ delta_time = 0
    /\ todo = <<>>
    /\ observers = <<>>
    /\ notified = 0
    /\ simulation_thread = FALSE
    /\ stop_pc = "idle"
    /\ join_deadline = 0
    /\ returned = NoCall
    /\ city_graph \in ArgGraphs

FindOptimalPathOfArgs ==
    \E start_id \in NodeArgs, goal_id \in NodeArgs,
       algorithm \in AlgorithmArgs, cost_type \in CostTypeArgs :
        /\ returned = NoCall
        /\ returned' = [op |-> "find_optimal_path", start_id |-> start_id,
                        goal_id |-> goal_id,
                        out |-> find_optimal_path(start_id, goal_id, algorithm, cost_type)]
        /\ UNCHANGED <<now, drivers, rides, active_rides, tickVars, loopVars,
                       driver_order, city_graph>>

NextArgs == FindOptimalPathOfArgs

SpecArgs == InitArgs /\ [][NextArgs]_vars

(***************************************************************************)
(* SpecOrder: find_optimal_path on graphs built by add_edge calls made in  *)
(* any order.  Nodes 1 and 4 lie at latitudes 0 and 1, nodes 2 and 3 at    *)
(* either; each directed edge of DiamondEdges is absent, short and slow or *)
(* long and fast, so that routes of equal cost exist.  One call is made on *)
(* each graph, with the neighbours of every node in one of the orders      *)
(* add_edge can have left them in.                                         *)
(***************************************************************************)
DiamondEdges == <<<<1, 2>>, <<1, 3>>, <<2, 4>>, <<3, 4>>, <<2, 3>>>>
DiamondLats == {l \in [Nodes -> {0, 1}] : l[1] = 0 /\ l[4] = 1}
DiamondChoices == {[distance |-> 1, time |-> 2], [distance |-> 2, time |-> 1], NoEdge}

DiamondGraphOf(lat, edges) ==
    [lat |-> lat,
     neighbors |-> [n \in Nodes |->
        {[to |-> DiamondEdges[i][2], distance |-> edges[i].distance,
          time |-> edges[i].time] :
            i \in {j \in DOMAIN DiamondEdges :
                     DiamondEdges[j][1] = n /\ edges[j] # NoEdge}}]]

DiamondGraphs ==
    {DiamondGraphOf(lat, edges) : lat \in DiamondLats,
                                  edges \in [DOMAIN DiamondEdges -> DiamondChoices]}

\* the lists without repetition of the elements of S
Orderings(S) ==
    {s \in [1..Cardinality(S) -> S] : \A i, j \in DOMAIN s : i # j => s[i] # s[j]}

\* CityNode.neighbors of every node in an order of insertion
NeighborIds(n) == {e.to : e \in neighbors[n]}
NeighborOrders ==
    {<<o1, o2, o3, o4>> : o1 \in Orderings(NeighborIds(1)), o2 \in Orderings(NeighborIds(2)),
                          o3 \in Orderings(NeighborIds(3)), o4 \in Orderings(NeighborIds(4))}

InitOrder ==
    /\ now = 0
    /\ drivers = NoDrivers
    /\ driver_order = <<>>
    /\ rides = <<>>
    /\ active_rides = NoRides
    /\ is_running = FALSE
    /\ last_update_time = None
    /\ tick_pc = "not_started"
    /\ current_time = 0
    /\ delta_time = 0
    /\ todo = <<>>
    /\ observers = <<>>
    /\ notified = 0
    /\ simulation_thread = FALSE
    /\ stop_pc = "idle"
    /\ join_deadline = 0
    /\ returned = NoCall
    /\ city_graph \in DiamondGraphs

FindOptimalPathInOrder ==
    \E order \in NeighborOrders, goal_id \in Nodes,
       algorithm \in Algorithms, cost_type \in CostTypes :
        /\ returned = NoCall
        /\ returned' = [op |-> "find_optimal_path", order |-> order, start_id |-> 1,
                        goal_id |-> goal_id, algorithm |-> algorithm,
                        cost_type |-> cost_type,
                        out |-> find_optimal_path_in_order(order, 1, goal_id,
                                                           algorithm, cost_type)]
        /\ UNCHANGED <<now, drivers, rides, active_rides, tickVars, loopVars,
                       driver_order, city_graph>>

NextOrder == FindOptimalPathInOrder

SpecOrder == InitOrder /\ [][NextOrder]_vars

(***************************************************************************)

(* SpecLive: the ride lifecycle with the loop running, for what must       *)
(* eventually happen.  Two AVAILABLE drivers register, the simulation is   *)
(* started, and up to MaxRidesLive rides are confirmed up to second        *)
(* ConfirmUntil; start_ride and complete_ride may be called at any time,   *)
(* cancel_ride never.  The loop sleeps 0.1 s in every iteration, so the    *)
(* clock moves on to the next second only after an iteration has run in    *)
(* the current one, and an iteration that follows finds time elapsed.  The *)
(* clock runs to MaxTimeLive, long enough after ConfirmUntil for both      *)
(* paths and the grace delay.  The thread of the loop is scheduled again   *)
(* and again (weak fairness on its steps), and time passes.                *)
(***************************************************************************)
MaxRidesLive == 2
ConfirmUntil == 1
MaxTimeLive == 12
LiveDriverInputs == <<[id |-> "d1", location |-> 0, status |-> "available"],
                      [id |-> "d2", location |-> 3, status |-> "available"]>>

AddDriverLive ==
    LET i == Cardinality(DOMAIN drivers) + 1
    IN  /\ i <= Len(LiveDriverInputs)
        /\ ~is_running
        /\ add_driver(LiveDriverInputs[i].id, LiveDriverInputs[i].location,
                      LiveDriverInputs[i].status)

StartSimulationLive ==
    /\ Cardinality(DOMAIN drivers) = Len(LiveDriverInputs)
    /\ start_simulation

ConfirmRideLive ==
    \E q \in Requests, d \in DriverIds :
        /\ is_running
        /\ now <= ConfirmUntil
        /\ Len(rides) < MaxRidesLive
        /\ confirm_ride_with_predecessors(q, d)

AdvanceClockLive ==
    /\ is_running
    /\ tick_pc = "sleep"
    /\ last_update_time = now
    /\ AdvanceClockUpTo(MaxTimeLive)

NextLive ==
    \/ AddDriverLive
    \/ StartSimulationLive
    \/ ConfirmRideLive
    \/ StartRide
    \/ CompleteRide
    \/ Tick
    \/ TickAutoStart
    \/ AdvanceClockLive

LoopFairness ==
    /\ WF_vars(Tick)
    /\ WF_vars(TickAutoStart)
    /\ WF_vars(AdvanceClockLive)

SpecLive == Init /\ [][NextLive]_vars /\ LoopFairness

(***************************************************************************)
(* Properties.                                                             *)
(***************************************************************************)
Terminal == {"completed", "cancelled"}
NonTerminal == {"accepted", "driver_en_route", "arrived", "in_progress"}
Objects == 1..Len(rides)
\* the ride objects active_rides holds
Stored == {active_rides[r] : r \in DOMAIN active_rides}

Successor(status) ==
    CASE status = "accepted" -> "driver_en_route"
      [] status = "driver_en_route" -> "arrived"
      [] status = "arrived" -> "in_progress"
      [] status = "in_progress" -> "completed"
      [] OTHER -> "none"

C5_ConfirmStoresOneRide ==
    /\ [](\A q \in Requests, d \in DOMAIN drivers :
            drivers[d].status = "available" => confirm_ride_result(q, d) = "ok")
    /\ [][\A q \in Requests, d \in DOMAIN drivers :
            drivers[d].status = "available" /\ confirm_ride(q, d)
                => /\ Cardinality(DOMAIN active_rides') = Cardinality(DOMAIN active_rides) + 1
                   /\ \A r \in DOMAIN active_rides :
                          /\ r \in DOMAIN active_rides'
                          /\ rides'[active_rides'[r]] = rides[active_rides[r]]
                   /\ \E r \in DOMAIN active_rides' \ DOMAIN active_rides :
                          LET ride == rides'[active_rides'[r]]
                          IN  /\ ride.driver = d
                              /\ ride.pickup_node_id = q.pickup_node_id
                              /\ ride.dropoff_node_id = q.dropoff_node_id
                              /\ ride.status = "driver_en_route"
                              /\ ride.current_path = "driver_to_pickup"
                              /\ ride.current_path_segment = 0
                              /\ ride.covered = 0
                   /\ drivers' = [drivers EXCEPT ![d].status = "busy"]]_vars

RideIdsNotStored == ((0..MaxTimeWide) \cup {UnknownRide}) \ DOMAIN active_rides
DriverIdsNotRegistered == DriverIdInputs \ DOMAIN drivers

RECURSIVE PathLength(_)
PathLength(path) ==
    IF Len(path) < 2 THEN 0
    ELSE haversine_distance(NodeLat[path[1]], NodeLat[path[2]]) + PathLength(Tail(path))

Min(a, b) == IF a <= b THEN a ELSE b

\* the distance from the first node of the current path to the cursor
Travelled(ride) ==
    LET path == PathOf(ride)
        done == Min(ride.current_path_segment, Len(path) - 1)
    IN  PathLength(SubSeq(path, 1, done + 1)) + ride.covered

SegLen(ride) == IF SegmentDefined(ride) THEN segment_distance(ride) ELSE 1

\* segment_progress lies in [0, 1]
ProgressInRange == \A o \in Objects : rides[o].covered >= 0 /\ rides[o].covered <= SegLen(rides[o])

\* segment_progress is 0 after a step that advances the index or switches the path
ProgressResets ==
    \A o \in Objects :
        \/ rides'[o].current_path_segment > rides[o].current_path_segment
        \/ rides'[o].current_path # rides[o].current_path
        => rides'[o].covered = 0

C12_ObserverFailureDoesNotAbortTick ==
    /\ [](tick_pc # "observer_failed")
    /\ [][((Tick \/ TickAutoStart) /\ tick_pc' \in {"sleep", "observer_failed"})
            => notified' = Len(observers)]_vars

\* no stop_simulation call is waiting, and none has been followed by
\* start_simulation
Stopped == ~is_running /\ stop_pc = "idle"

RECURSIVE Reach(_)
Reach(S) ==
    LET T == S \cup {e.to : e \in UNION {neighbors[n] : n \in S}}
    IN  IF T = S THEN S ELSE Reach(T)

Reachable(start_id, goal_id) == goal_id \in Reach({start_id})

IsEdge(u, v) == \E e \in neighbors[u] : e.to = v

CalledFindOptimalPath == returned.op = "find_optimal_path"

\* C14: find_optimal_path for a goal that no directed path reaches from a
\* different start ends in an error, never in a returned dictionary.
C14_UnreachableIsAnError ==
    (/\ CalledFindOptimalPath
     /\ returned.start_id # returned.goal_id
     /\ ~Reachable(returned.start_id, returned.goal_id))
        => returned.out.raised # "none"

\* the sum of the costs of the edges along a node list
RECURSIVE PathCost(_, _)
PathCost(path, cost_type) ==
    IF Len(path) < 2 THEN 0
    ELSE Plus(EdgeCost(get_neighbor_cost(path[1], path[2]), cost_type),
              PathCost(Tail(path), cost_type))

AStarMatchesDijkstra ==
    PathCost(returned.out.path, returned.out.cost_type)
        = PathCost(SearchPath(returned.start_id, returned.goal_id, "dijkstra",
                              returned.out.cost_type),
                   returned.out.cost_type)

CalledAStarOnReachable ==
    /\ CalledFindOptimalPath
    /\ returned.out.algorithm = "a_star"
    /\ Reachable(returned.start_id, returned.goal_id)

EdgesCoverStraightLine(cost_type) ==
    \A n \in Nodes : \A e \in neighbors[n] :
        EdgeCost(e, cost_type) >= calculate_heuristic(n, e.to, cost_type)

C16_PathLeadsFromStartToGoal ==
    CalledFindOptimalPath =>
        LET path == returned.out.path
        IN  /\ returned.start_id = returned.goal_id => path = <<returned.start_id>>
            /\ (returned.start_id # returned.goal_id
                  /\ Reachable(returned.start_id, returned.goal_id))
                 => /\ Len(path) >= 2
                    /\ path[1] = returned.start_id
                    /\ path[Len(path)] = returned.goal_id
                    /\ \A i, j \in 1..Len(path) : path[i] = path[j] => i = j
                    /\ \A i \in 1..(Len(path) - 1) : IsEdge(path[i], path[i + 1])

C16_Witness ==
    /\ CalledFindOptimalPath
    /\ Len(returned.out.path) = 3
    /\ IsEdge(returned.goal_id, returned.out.path[2])

\* the weight of the directed edge u -> v, as add_edge stored it
EdgeWeight(u, v) == CHOOSE e \in neighbors[u] : e.to = v

RECURSIVE SumAlong(_, _)
SumAlong(nodes, cost_type) ==
    IF Len(nodes) < 2 THEN 0
    ELSE EdgeCost(EdgeWeight(nodes[1], nodes[2]), cost_type)
         + SumAlong(Tail(nodes), cost_type)

\* segments holds the edges between consecutive nodes, in order
SegmentsFollowNodes(details) ==
    /\ Len(details.segments) = IF details.nodes = <<>> THEN 0 ELSE Len(details.nodes) - 1
    /\ \A i \in 1..Len(details.segments) :
        /\ IsEdge(details.nodes[i], details.nodes[i + 1])
        /\ details.segments[i] =
             [from |-> details.nodes[i], to |-> details.nodes[i + 1],
              distance |-> EdgeWeight(details.nodes[i], details.nodes[i + 1]).distance,
              time |-> EdgeWeight(details.nodes[i], details.nodes[i + 1]).time]

\* C17 as stated: the totals are the sums of the weights of the edges along
\* the returned nodes (a total is in hundredths, a sum in model units).
C17_TotalsAreSums ==
    CalledFindOptimalPath =>
        LET details == returned.out.details
        IN  /\ SegmentsFollowNodes(details)
            /\ details.total_distance * UnitsPerKm
                 = 100 * SumAlong(details.nodes, "distance")
            /\ details.total_time * TimeUnitsPerMinute
                 = 100 * SumAlong(details.nodes, "time")

\* C17: the totals are the sums of the weights of the edges along the
\* returned nodes rounded to two decimals: a whole number of hundredths that
\* lies no more than half a hundredth from the sum.
C17_TotalsAreRoundedSums ==
    CalledFindOptimalPath =>
        LET details == returned.out.details
        IN  /\ SegmentsFollowNodes(details)
            /\ 2 * Abs(details.total_distance * UnitsPerKm
                         - 100 * SumAlong(details.nodes, "distance")) <= UnitsPerKm
            /\ 2 * Abs(details.total_time * TimeUnitsPerMinute
                         - 100 * SumAlong(details.nodes, "time")) <= TimeUnitsPerMinute

\* a path of two edges whose distances add up to 2/12 km, returned as 0.17
C17_Witness ==
    /\ CalledFindOptimalPath
    /\ Len(returned.out.details.nodes) = 3
    /\ SumAlong(returned.out.details.nodes, "distance") = 2
    /\ returned.out.details.total_distance = 17
    /\ returned.out.cost_type = "time"

\* C18: get_path_details on a node list with an id the graph lacks ends in an
\* error, never in totals and segments of the other nodes.
C18_UnknownNodeIsAnError ==
    (returned.op = "get_path_details"
       /\ \E i \in 1..Len(returned.path) : returned.path[i] \notin Nodes)
        => returned.raised # "none"

(***************************************************************************)
(* driver_matching.py                                                      *)
(***************************************************************************)
\* the drivers find_nearest_drivers may return: AVAILABLE, of the vehicle
\* type when one is given, no farther than max_distance in a straight line
Eligible(location, max_distance, vehicle_type) ==
    {d \in DOMAIN drivers :
        /\ drivers[d].status = "available"
        /\ vehicle_type = "None" \/ drivers[d].vehicle_type = vehicle_type
        /\ haversine_distance(location, drivers[d].current_location) <= max_distance}

Ids(entries) == {entries[i].id : i \in 1..Len(entries)}

\* C19: find_nearest_drivers returns at most max_count entries, each an
\* eligible driver with its straight-line distance, in ascending order of
\* that distance, and no eligible driver left out is closer than a driver
\* returned.
C19_NearestDriversSelected ==
    returned.op = "find_nearest_drivers" =>
        LET out == returned.out
            eligible == Eligible(returned.location, returned.max_distance,
                                 returned.vehicle_type)
        IN  /\ Len(out) <= returned.max_count
            /\ \A i \in 1..Len(out) :
                /\ out[i].id \in eligible
                /\ out[i].distance = haversine_distance(returned.location,
                                         drivers[out[i].id].current_location)
            /\ \A i, j \in 1..Len(out) : i < j => out[i].distance <= out[j].distance
            /\ \A i, j \in 1..Len(out) : out[i].id = out[j].id => i = j
            /\ \A d \in eligible \ Ids(out) : \A i \in 1..Len(out) :
                haversine_distance(returned.location, drivers[d].current_location)
                    >= out[i].distance

\* the closer of two eligible drivers of the requested type was added last,
\* and one driver was asked for
C19_Witness ==
    /\ returned.op = "find_nearest_drivers"
    /\ returned.max_count = 1
    /\ returned.vehicle_type = "suv"
    /\ Cardinality(Eligible(returned.location, returned.max_distance, "suv")) = 2
    /\ Len(returned.out) = 1
    /\ returned.out[1].id = "d2"
    /\ returned.out[1].distance
         < haversine_distance(returned.location, drivers["d1"].current_location)

CalledMatch == returned.op = "match_driver_to_request"

\* the drivers of the result are those find_nearest_drivers selects for the
\* pickup location of the request, each once
SameDriversAsNearest ==
    LET nearest == find_nearest_drivers(drivers, driver_order,
                       returned.request.pickup_location, returned.max_candidates,
                       returned.max_distance, returned.request.vehicle_type)
    IN  /\ Ids(returned.out) = Ids(nearest)
        /\ Len(returned.out) = Len(nearest)

\* route time from the driver's nearest node to the pickup node plus the
\* last-mile estimate, in 1/600 minute
ComputedEta(d) == calculate_driver_eta(drivers[d], PickupNode(returned.request)).total_time

C21_SearchesBoundedByCandidates ==
    CalledMatch => returned.searches <= returned.max_candidates

\* rupees per km by vehicle type, whatever the case of its letters
Rate(vehicle_type) ==
    CASE vehicle_type \in {"mini"} -> 12
      [] vehicle_type \in {"sedan", "Sedan"} -> 15
      [] vehicle_type \in {"premium"} -> 20
      [] vehicle_type \in {"suv", "SUV"} -> 18
      [] vehicle_type \in {"xl"} -> 25
      [] OTHER -> 15

\* the least total distance of a path between the nodes, in hundredths of a km
LeastDistance(pickup_node_id, dropoff_node_id) ==
    RoundKm(PathCost(reconstruct_path(
                dijkstra_algorithm(pickup_node_id, dropoff_node_id,
                                   "distance").predecessors,
                pickup_node_id, dropoff_node_id), "distance"))

\* 50 + ride_distance x rate, times 1.5 in the hours 8..10 and 17..19, in
\* 1/200 rupee, from the request and the hour alone
ExpectedFare ==
    LET request == returned.request
        distance == IF request.pickup_node_id # None /\ request.dropoff_node_id # None
                    THEN LeastDistance(request.pickup_node_id, request.dropoff_node_id)
                    ELSE 500
        surge == returned.current_hour \in (8..10) \cup (17..19)
    IN  (5000 + distance * Rate(request.vehicle_type)) * (IF surge THEN 3 ELSE 2)

CalledEstimateFare == returned.op = "estimate_fare"

C23_StatusUpdateValidated ==
    [][\A driver_id \in DriverIdInputs, status \in StatusInputs :
        UpdateDriverStatusOf(driver_id, status) =>
            IF driver_id \in DOMAIN drivers
               /\ status \in {"available", "busy", "offline", "on_trip", "on_break"}
            THEN /\ returned'.out = TRUE
                 /\ DOMAIN drivers' = DOMAIN drivers
                 /\ drivers'[driver_id].status = status
                 /\ drivers'[driver_id].current_location = drivers[driver_id].current_location
                 /\ drivers'[driver_id].nearest_node_id = drivers[driver_id].nearest_node_id
                 /\ drivers'[driver_id].vehicle_type = drivers[driver_id].vehicle_type
                 /\ \A d \in DOMAIN drivers \ {driver_id} : drivers'[d] = drivers[d]
            ELSE /\ returned'.out = FALSE
                 /\ drivers' = drivers]_vars

\* of two registered drivers one was set on_break and kept its place, and a
\* call has failed since
C23_Witness ==
    /\ returned.op = "update_driver_status"
    /\ returned.out = FALSE
    /\ DOMAIN drivers = {"d1", "d2"}
    /\ drivers["d1"].status = "on_break"
    /\ drivers["d1"].current_location = MaxCoord
    /\ drivers["d2"].status = "available"

\* C24: every registered driver's nearest_node_id is the nearest node of its
\* current_location.
C24_NearestNodeFollowsLocation ==
    \A d \in DOMAIN drivers :
        drivers[d].nearest_node_id = get_nearest_node(drivers[d].current_location)

(***************************************************************************)
(* city_graph.py                                                           *)
(***************************************************************************)
\* the place of a node in the order of insertion
InsertedAt(n) == CHOOSE i \in 1..Len(NodeIds) : NodeIds[i] = n

\* C25: get_nearest_node returns a node at the least distance from the query
\* point, and of several such nodes the one inserted first.
C25_NearestNodeFirstOfTheClosest ==
    returned.op = "get_nearest_node" =>
        /\ returned.out \in Nodes
        /\ \A n \in Nodes :
            /\ haversine_distance(returned.lat, NodeLat[returned.out])
                 <= haversine_distance(returned.lat, NodeLat[n])
            /\ haversine_distance(returned.lat, NodeLat[n])
                 = haversine_distance(returned.lat, NodeLat[returned.out])
               => InsertedAt(returned.out) <= InsertedAt(n)

\* the second and the third node are equally near, the first and the fourth
\* are farther, and the second is returned
C25_Witness ==
    /\ returned.op = "get_nearest_node"
    /\ returned.out = 2
    /\ returned.lat = MaxCoord + 1
    /\ NodeLat[1] = 0
    /\ NodeLat[2] = MaxCoord
    /\ NodeLat[3] = MaxCoord
    /\ NodeLat[4] = 1

\* C26: the graph loaded from the file a graph was saved to has the same
\* nodes and the same directed edges with the same weights.
C26_RoundTripKeepsEdges ==
    returned.op = "load_from_file" =>
        /\ DOMAIN returned.out.lat = DOMAIN city_graph.lat
        /\ DOMAIN returned.out.neighbors = DOMAIN city_graph.neighbors
        /\ \A n \in DOMAIN city_graph.lat :
            /\ returned.out.lat[n] = city_graph.lat[n]
            /\ returned.out.neighbors[n] = city_graph.neighbors[n]

\* an edge 1 -> 2 without its reverse, next to an edge in both directions
\* with equal weights and a loop, has been saved and loaded
C26_Witness ==
    /\ returned.op = "load_from_file"
    /\ DOMAIN city_graph.lat = {1, 2, 3}
    /\ \E e \in returned.out.neighbors[1] : e.to = 2 /\ e.distance = 1 /\ e.time = 0
    /\ returned.out.neighbors[2] = {[to |-> 3, distance |-> 1, time |-> 1]}
    /\ \E e \in returned.out.neighbors[3] : e.to = 2
    /\ \E e \in returned.out.neighbors[3] : e.to = 3

(***************************************************************************)
(* pathfinding.py: arguments                                               *)
(***************************************************************************)
\* C27: find_optimal_path with an algorithm other than dijkstra and a_star
\* or a cost_type other than time and distance raises ValueError, and no
\* search has been entered.
C27_InvalidArgumentRejected ==
    (/\ CalledFindOptimalPath
     /\ \/ returned.out.algorithm \notin {"dijkstra", "a_star"}
        \/ returned.out.cost_type \notin {"time", "distance"})
    => /\ returned.out.raised = "ValueError"
       /\ ~returned.out.searched

\* an unknown algorithm with a valid cost type, on node ids one of which the
\* graph lacks
C27_Witness ==
    /\ CalledFindOptimalPath
    /\ returned.out.algorithm = "bfs"
    /\ returned.out.cost_type = "time"
    /\ returned.start_id = UnknownNode
    /\ returned.goal_id = 2
    /\ returned.out.raised = "ValueError"

\* C28: find_optimal_path with a start id or a goal id the graph lacks ends
\* with an error under either algorithm, never with a path result.
C28_UnknownNodeRejected ==
    (/\ CalledFindOptimalPath
     /\ returned.out.algorithm \in Algorithms
     /\ returned.out.cost_type \in CostTypes
     /\ returned.start_id \notin Nodes \/ returned.goal_id \notin Nodes)
    => returned.out.raised # "none"

(***************************************************************************)
(* simulation.py: what eventually happens                                  *)
(***************************************************************************)
\* ride object o exists and both its paths have at least two nodes
ConfirmedWithPaths(o) ==
    /\ o \in Objects
    /\ Len(rides[o].driver_to_pickup_path) >= 2
    /\ Len(rides[o].pickup_to_dropoff_path) >= 2

StatusIs(o, status) == o \in Objects /\ rides[o].status = status

DriverAvailableAgain(o) ==
    o \in Objects /\ drivers[rides[o].driver].status = "available"

\* the thread of the loop is alive: no exception has ended it
LoopRunning == is_running /\ tick_pc \in {"sleep", "auto_start"}

StoredTerminal(o) ==
    /\ o \in Stored
    /\ rides[o].status \in {"completed", "cancelled"}

AtStartOfSecondPath(r) ==
    /\ r.current_path = "pickup_to_dropoff"
    /\ r.current_path_segment = 0
    /\ r.covered = 0

\* a step in which ride object o takes the status it did not have
Enters(o, status) == rides[o].status # status /\ rides'[o].status = status

CalledInOrder == returned.op = "find_optimal_path" /\ "order" \in DOMAIN returned

\* two routes from start_id to goal_id have the same least cost
RECURSIVE RouteCosts(_, _, _, _)
RouteCosts(n, goal, cost_type, seen) ==
    IF n = goal THEN {<<0, <<n>>>>}
    ELSE UNION {{<<c[1] + EdgeCost(e, cost_type), <<n>> \o c[2]>> :
                   c \in RouteCosts(e.to, goal, cost_type, seen \cup {n})} :
                e \in {f \in neighbors[n] : f.to \notin seen \cup {n}}}

\* C32: on a graph with given nodes, edges and weights find_optimal_path
\* returns the same node sequence whatever the order in which the neighbours
\* of each node were inserted.
C32_PathIndependentOfInsertionOrder ==
    CalledInOrder =>
        \A other \in NeighborOrders :
            find_optimal_path_in_order(other, returned.start_id, returned.goal_id,
                                       returned.algorithm, returned.cost_type)
                = returned.out

\* a search between two routes of the same least cost, made on neighbours
\* inserted in the other order than the edges are listed in
C32_Witness ==
    /\ CalledInOrder
    /\ returned.goal_id = 4
    /\ returned.order[1] = <<3, 2>>
    /\ Len(returned.out) = 3
    /\ LET costs == RouteCosts(1, 4, returned.cost_type, {})
           least == CHOOSE c \in costs : \A d \in costs : c[1] <= d[1]
       IN  Cardinality({c \in costs : c[1] = least[1]}) >= 2

(***************************************************************************)
(* simulation.py: what the observers are given                             *)
(***************************************************************************)
\* an iteration of the loop comes to its end: the thread reaches the sleep of
\* line 570 or an exception leaves simulation_loop
IterationEnds == (Tick \/ TickAutoStart) /\ tick_pc' # "auto_start"

\* the snapshot holds the rides of active_rides that are in a non-terminal
\* status, with the status and cursor they have in rs, and the drivers that
\* are AVAILABLE in ds
SnapshotShows(snap, rs, ds) ==
    /\ DOMAIN snap.active_rides
         = {r \in DOMAIN active_rides : rs[active_rides[r]].status \in NonTerminal}
    /\ \A r \in DOMAIN snap.active_rides :
         /\ snap.active_rides[r].status = rs[active_rides[r]].status
         /\ snap.active_rides[r].path_segment = rs[active_rides[r]].current_path_segment
         /\ snap.active_rides[r].segment_progress = rs[active_rides[r]].covered
    /\ {snap.available_drivers[i] : i \in DOMAIN snap.available_drivers}
         = {d \in DOMAIN ds : ds[d].status = "available"}
    /\ \A i, j \in DOMAIN snap.available_drivers :
         i # j => snap.available_drivers[i] # snap.available_drivers[j]

\* C33: every iteration of the loop, once the rides are updated, calls each
\* registered observer once, with a snapshot that holds exactly the rides in
\* a non-terminal status, as that iteration left them, and exactly the
\* AVAILABLE drivers.
C33_ObserversGetSnapshotEachTick ==
    [][IterationEnds
        => /\ notified' = Len(observers)
           /\ ~SnapshotRaises(rides')
           /\ SnapshotShows(get_simulation_state(rides', drivers', driver_order'),
                            rides', drivers')]_vars

(***************************************************************************)
(* simulation.py: where a ride is at the end of a path                     *)
(***************************************************************************)
\* the coordinate of the dropoff end of the ride's second path
DropoffLat(r) == NodeLat[r.pickup_to_dropoff_path[Len(r.pickup_to_dropoff_path)]]

\* ride object o has just been moved to COMPLETED by the loop; get_current_location
\* gives the coordinate of the last node of its pickup-to-dropoff path, and
\* so does the location the loop wrote to its driver
CompletedAtDropoff(o) ==
    /\ get_current_location(rides'[o]) = DropoffLat(rides'[o])
    /\ drivers'[rides'[o].driver].current_location = DropoffLat(rides'[o])

\* ride object o has just been moved to ARRIVED by the loop; get_current_location
\* is defined and gives the coordinate of the pickup node
ArrivedAtPickup(o) ==
    /\ SegmentDefined(rides'[o])
    /\ get_current_location(rides'[o]) = NodeLat[rides'[o].pickup_node_id]

ConfirmCalls == {1, 2}
NotCalled == [pc |-> "not_called"]

InitConfirm ==
    /\ now = 0
    /\ drivers = NoDrivers
    /\ driver_order = <<>>
    /\ rides = <<>>
    /\ active_rides = NoRides
    /\ is_running = FALSE
    /\ last_update_time = None
    /\ tick_pc = "not_started"
    /\ current_time = 0
    /\ delta_time = 0
    /\ todo = <<>>
    /\ observers = <<>>
    /\ notified = 0
    /\ simulation_thread = FALSE
    /\ stop_pc = "idle"
    /\ join_deadline = 0
    /\ returned = [op |-> "confirm_ride", calls |-> [c \in ConfirmCalls |-> NotCalled]]
    /\ city_graph = ChainGraph

\* lines 293-300 in call c: the driver is looked up and its status tested
ConfirmRideChecks(c) ==
    /\ returned.calls[c].pc = "not_called"
    /\ \E q \in Requests, d \in DriverIdInputs :
        returned' = [returned EXCEPT !.calls[c] =
                        IF confirm_ride_checks(q, d) = "ok"
                        THEN [pc |-> "checked", request |-> q, driver_id |-> d]
                        ELSE [pc |-> "returned", driver_id |-> d,
                              result |-> confirm_ride_checks(q, d)]]
    /\ UNCHANGED <<now, drivers, rides, active_rides, tickVars, loopVars, driver_order,
                   city_graph>>

\* lines 302-364 in call c, over a find_optimal_path whose result carries the
\* predecessor map: the paths are found, the ride is built under the id of
\* this second, the driver is marked BUSY, the ride is stored and returned
ConfirmRideCommits(c) ==
    /\ returned.calls[c].pc = "checked"
    /\ LET request == returned.calls[c].request
           driver_id == returned.calls[c].driver_id
           paths == ConfirmPaths(request, drivers[driver_id])
           ride_id == now
           active_ride == ActiveRide(ride_id, request, driver_id,
                                     paths.driver_to_pickup, paths.pickup_to_dropoff, now)
       IN  /\ drivers' = update_driver_status(drivers, driver_id, "busy")
           /\ rides' = Append(rides, update_status(active_ride, "driver_en_route", now))
           /\ active_rides' = [r \in DOMAIN active_rides \cup {ride_id} |->
                                 IF r = ride_id THEN Len(rides) + 1 ELSE active_rides[r]]
           /\ returned' = [returned EXCEPT !.calls[c] =
                              [pc |-> "returned", driver_id |-> driver_id,
                               result |-> "ok", ride |-> Len(rides) + 1]]
    /\ UNCHANGED <<now, tickVars, loopVars, driver_order, city_graph>>

ConfirmRideCall == \E c \in ConfirmCalls : ConfirmRideChecks(c)
ConfirmRideReturn == \E c \in ConfirmCalls : ConfirmRideCommits(c)

NextConfirm ==
    \/ AddDriverLive
    \/ ConfirmRideCall
    \/ ConfirmRideReturn
    \/ AdvanceClock

SpecConfirm == InitConfirm /\ [][NextConfirm]_vars

(***************************************************************************)
(* simulation.py: two confirmations of one driver                          *)
(***************************************************************************)
\* call c has returned a ride for driver d
Confirmed(c, d) ==
    /\ returned.calls[c].pc = "returned"
    /\ returned.calls[c].result = "ok"
    /\ returned.calls[c].driver_id = d

InitMatchOneWay ==
    /\ now = 0
    /\ rides = <<>>
    /\ active_rides = NoRides
    /\ is_running = FALSE
    /\ last_update_time = None
    /\ tick_pc = "not_started"
    /\ current_time = 0
    /\ delta_time = 0
    /\ todo = <<>>
    /\ observers = <<>>
    /\ notified = 0
    /\ simulation_thread = FALSE
    /\ stop_pc = "idle"
    /\ join_deadline = 0
    /\ returned = NoCall
    /\ city_graph = OneWayGraph
    /\ \E n \in 0..Len(MatchDriverIds) :
        /\ driver_order = SubSeq(MatchDriverIds, 1, n)
        /\ drivers \in RegistryInputs(n)

SpecMatchOneWay == InitMatchOneWay /\ [][NextMatch]_vars

(***************************************************************************)
(* driver_matching.py: candidates without a route                          *)
(***************************************************************************)
\* a route leads from the nearest node of driver id to the pickup node of the
\* request of the call
HasRoute(id) ==
    Reachable(drivers[id].nearest_node_id, PickupNode(returned.request))

\* C36: a candidate whose nearest node has no route to the pickup node of the
\* request is not in the list match_driver_to_request returns with an ETA
\* built from a zero route time, and so is not ranked ahead of a candidate that
\* has a route.
C36_NoCandidateWithoutRoute ==
    CalledMatch =>
        /\ \A i \in DOMAIN returned.out : HasRoute(returned.out[i].id)
        /\ \A i, j \in DOMAIN returned.out :
             i < j /\ HasRoute(returned.out[j].id) => HasRoute(returned.out[i].id)

(***************************************************************************)
(* simulation.py: the ride id of a confirmation                            *)
(***************************************************************************)
\* a step in which confirm_ride built a ride
ConfirmSucceeds == Len(rides') = Len(rides) + 1

\* the step added one entry to active_rides and left the others as they were
AddsNewEntry ==
    /\ Cardinality(DOMAIN active_rides') = Cardinality(DOMAIN active_rides) + 1
    /\ \A r \in DOMAIN active_rides :
        r \in DOMAIN active_rides' /\ active_rides'[r] = active_rides[r]

DijkstraGraphs ==
    DiamondGraphs
        \cup {GraphOf(ChainLat, edges) : edges \in [DOMAIN EdgeInputs -> EdgeChoices]}

InitDijkstra ==
    /\ now = 0
    /\ drivers = NoDrivers
    /\ driver_order = <<>>
    /\ rides = <<>>
    /\ active_rides = NoRides
    /\ is_running = FALSE
    /\ last_update_time = None
    /\ tick_pc = "not_started"
    /\ current_time = 0
    /\ delta_time = 0
    /\ todo = <<>>
    /\ observers = <<>>
    /\ notified = 0
    /\ simulation_thread = FALSE
    /\ stop_pc = "idle"
    /\ join_deadline = 0
    /\ returned = NoCall
    /\ city_graph \in DijkstraGraphs

DijkstraAlgorithm ==
    \E start_id \in Nodes, goal_id \in Nodes, cost_type \in CostTypes :
        /\ returned = NoCall
        /\ returned' = [op |-> "dijkstra_algorithm", start_id |-> start_id,
                        goal_id |-> goal_id, cost_type |-> cost_type,
                        distances |-> dijkstra_algorithm(start_id, goal_id, cost_type).scores]
        /\ UNCHANGED <<now, drivers, rides, active_rides, tickVars, loopVars,
                       driver_order, city_graph>>

NextDijkstra == DijkstraAlgorithm

SpecDijkstra == InitDijkstra /\ [][NextDijkstra]_vars

(***************************************************************************)
(* pathfinding.py: the cost Dijkstra records                               *)
(***************************************************************************)
CalledDijkstraOnReachable ==
    /\ returned.op = "dijkstra_algorithm"
    /\ Reachable(returned.start_id, returned.goal_id)

\* the costs of the directed routes from the start to the goal of the call
\* that pass no node twice (with weights that are not negative no other route
\* costs less), each with its node list
RoutesOfCall ==
    RouteCosts(returned.start_id, returned.goal_id, returned.cost_type, {})

\* C39: on every graph with non-negative weights and for every start and
\* goal with a directed route from start to goal, the cost dijkstra_algorithm
\* records for the goal in the chosen dimension is the least sum of that
\* dimension's weights over the routes from start to goal.
C39_DijkstraCostIsLeast ==
    CalledDijkstraOnReachable =>
        /\ \E c \in RoutesOfCall : c[1] = returned.distances[returned.goal_id]
        /\ \A c \in RoutesOfCall : returned.distances[returned.goal_id] <= c[1]

\* a call whose cheapest route has more edges than a dearer one
C39_Witness ==
    /\ CalledDijkstraOnReachable
    /\ \E c, d \in RoutesOfCall :
        /\ c[1] = returned.distances[returned.goal_id]
        /\ c[1] < d[1]
        /\ Len(c[2]) > Len(d[2])
        /\ \A b \in RoutesOfCall : Len(b[2]) <= Len(d[2]) => b[1] > c[1]

(***************************************************************************)
(* SpecStartStop: start_simulation and stop_simulation called from the     *)
(* request threads of the server, and every simulation_loop thread they    *)
(* create.  No ride and no observer exists, so an iteration of a loop      *)
(* writes last_update_time only.  returned.loops holds where each loop     *)
(* thread is ("testing" at the while of line 539, "iterating" inside the   *)
(* loop body, "ended"), returned.starts where each call of                 *)
(* start_simulation is, returned.joined the thread stop_simulation waits   *)
(* for.                                                                    *)
(***************************************************************************)
MaxLoops == 2
StartCalls == {1, 2}

InitStartStop ==
    /\ now = 0
    /\ drivers = NoDrivers
    /\ driver_order = <<>>
    /\ rides = <<>>
    /\ active_rides = NoRides
    /\ is_running = FALSE
    /\ last_update_time = None
    /\ tick_pc = "not_started"
    /\ current_time = 0
    /\ delta_time = 0
    /\ todo = <<>>
    /\ observers = <<>>
    /\ notified = 0
    /\ simulation_thread = FALSE
    /\ stop_pc = "idle"
    /\ join_deadline = 0
    /\ returned = [op |-> "threads", loops |-> <<>>,
                   starts |-> [c \in StartCalls |-> "idle"], joined |-> 0]
    /\ city_graph = ChainGraph

\* lines 574-575 in call c: the test of is_running
StartSimulationTests(c) ==
    /\ returned.starts[c] = "idle"
    /\ Len(returned.loops) < MaxLoops
    /\ returned' = [returned EXCEPT !.starts[c] = IF is_running THEN "idle" ELSE "tested"]
    /\ UNCHANGED <<now, drivers, rides, active_rides, tickVars, loopVars, driver_order,
                   city_graph>>

\* lines 577-580 in call c: the flag is set and a thread is created and started
StartSimulationCreates(c) ==
    /\ returned.starts[c] = "tested"
    /\ is_running' = TRUE
    /\ simulation_thread' = TRUE
    /\ returned' = [returned EXCEPT !.starts[c] = "idle",
                                    !.loops = Append(@, "testing")]
    /\ UNCHANGED <<now, drivers, rides, active_rides, last_update_time, tick_pc,
                   current_time, delta_time, todo, notified, observers, stop_pc,
                   join_deadline, driver_order, city_graph>>

\* stop_simulation, lines 584-586 up to the wait of join(timeout=1.0) for the
\* thread self.simulation_thread refers to, the one created last
StopSimulationCalled ==
    /\ stop_pc = "idle"
    /\ is_running' = FALSE
    /\ IF simulation_thread
       THEN /\ stop_pc' = "join"
            /\ join_deadline' = now + JoinTimeout
            /\ returned' = [returned EXCEPT !.joined = Len(returned.loops)]
       ELSE UNCHANGED <<stop_pc, join_deadline, returned>>
    /\ UNCHANGED <<now, drivers, rides, active_rides, last_update_time, tick_pc,
                   current_time, delta_time, todo, notified, observers,
                   simulation_thread, driver_order, city_graph>>

\* join returns when its thread is over or when the timeout has passed; line
\* 587 then drops the reference
StopSimulationJoined ==
    /\ stop_pc = "join"
    /\ returned.loops[returned.joined] = "ended" \/ now >= join_deadline
    /\ stop_pc' = "idle"
    /\ simulation_thread' = FALSE
    /\ UNCHANGED <<now, drivers, rides, active_rides, tickVars, observers,
                   join_deadline, returned, driver_order, city_graph>>

\* line 539 in loop thread i: while self.is_running
LoopTests(i) ==
    /\ returned.loops[i] = "testing"
    /\ returned' = [returned EXCEPT !.loops[i] = IF is_running THEN "iterating"
                                                 ELSE "ended"]
    /\ UNCHANGED <<now, drivers, rides, active_rides, tickVars, loopVars, driver_order,
                   city_graph>>

\* lines 541-570 in loop thread i: one iteration with its sleep
LoopIterates(i) ==
    /\ returned.loops[i] = "iterating"
    /\ last_update_time' = now
    /\ returned' = [returned EXCEPT !.loops[i] = "testing"]
    /\ UNCHANGED <<now, drivers, rides, active_rides, is_running, tick_pc, current_time,
                   delta_time, todo, notified, loopVars, driver_order, city_graph>>

StartSimulationCall == \E c \in StartCalls : StartSimulationTests(c)
StartSimulationReturn == \E c \in StartCalls : StartSimulationCreates(c)
LoopTest == \E i \in DOMAIN returned.loops : LoopTests(i)
LoopIteration == \E i \in DOMAIN returned.loops : LoopIterates(i)

NextStartStop ==
    \/ StartSimulationCall
    \/ StartSimulationReturn
    \/ StopSimulationCalled
    \/ StopSimulationJoined
    \/ LoopTest
    \/ LoopIteration
    \/ AdvanceClock

SpecStartStop == InitStartStop /\ [][NextStartStop]_vars

(***************************************************************************)
(* simulation.py: one loop at a time                                       *)
(***************************************************************************)
\* the loop threads that are inside an iteration
Iterating == {i \in DOMAIN returned.loops : returned.loops[i] = "iterating"}

\* C40: however the calls of start_simulation and stop_simulation interleave
\* (a stop whose join times out followed by a start, two starts at once), at
\* most one simulation loop is executing iterations at any time.
C40_OneLoopAtATime == Cardinality(Iterating) <= 1

====
